---------------------------- MODULE Spec2Model ----------------------------
(***************************************************************************)
(* Model of the external media-process orchestration of                    *)
(* engine/src/api/routes.rs: the modules `ytbot` and `livestream`.         *)
(*                                                                         *)
(* Two registries (YTBOT_PROCESSES, STREAM_PROCESSES), each behind one     *)
(* tokio AsyncMutex, map a channel id to the handle(s) of the child        *)
(* processes started for it.  Request handlers (start / stop / status)     *)
(* run as concurrent tasks; a handler is cut into steps only at the        *)
(* suspension points at which another task, the relay (copy) task or the   *)
(* operating system can interleave observably: waiting for a registry      *)
(* lock, waiting for a child lock, waiting for a child to exit.            *)
(*                                                                         *)
(* Library behaviour the model relies on (tokio 1.x, `.await`ed kill):     *)
(*   Child::kill().await  = start_kill() (SIGKILL) followed by wait():     *)
(*                          it returns only when the child has exited;     *)
(*   Child::try_wait()    = non-blocking poll, io::Result<Option<_>>;      *)
(*   Child::wait()        = returns the cached status once reaped;         *)
(*   dropping a Child     = does not kill it (no kill_on_drop).            *)
(***************************************************************************)
EXTENDS Naturals, Integers, Sequences, FiniteSets, TLC

(***************************************************************************)
(* Bounds of the model.                                                    *)
(***************************************************************************)
NumChannels == 2      \* channel ids 1..NumChannels exist in the controller
NumTasks == 2         \* concurrent request handlers
MaxProcs == 3         \* child processes that exist at one time
QueuedProcs == 2      \* the same, in the runs with queued arrivals
DrainProcs == 2       \* the same, in the runs that follow the log drains

(***************************************************************************)
(* Program constants.                                                      *)
(***************************************************************************)
TimeoutSecs == 5      \* timeout(Duration::from_secs(5), child.wait())
MaxPort == 65535      \* port_str.parse::<u16>()

ChannelIds == 1..NumChannels
\* A request may also name a channel id the controller does not hold.
RequestIds == 1..(NumChannels + 1)
Tasks == 1..NumTasks
Pids == 1..MaxProcs
NoTask == 0           \* holder of a mutex that is not locked
Kinds == {"ytbot", "livestream"}

-----------------------------------------------------------------------------
(***************************************************************************)
(* Executable Locator.  A path is a string; `envVar` is the value of the   *)
(* override variable (NoPath when unset); `exists` is the set of paths     *)
(* for which metadata() succeeds; `home` is home_dir() (NoPath when None). *)
(***************************************************************************)
NoPath == ""

RECURSIVE FirstExisting(_, _)
FirstExisting(paths, exists) ==
    IF paths = <<>> THEN NoPath
    ELSE IF Head(paths) \in exists THEN Head(paths)
    ELSE FirstExisting(Tail(paths), exists)

YtbotFallbacks == <<"/usr/local/bin/ytbot.sh", "/usr/local/bin/ytbot.py">>
FfmpegFallbacks == <<"/usr/bin/ffmpeg", "/usr/local/bin/ffmpeg">>

get_ytbot_path(envVar, exists) ==
    IF envVar # NoPath /\ envVar \in exists THEN envVar
    ELSE FirstExisting(YtbotFallbacks, exists)

\* A fault: the override is returned without the check that it exists.
get_ffmpeg_path_unchecked(envVar, exists) ==
    IF envVar # NoPath THEN envVar
    ELSE FirstExisting(FfmpegFallbacks, exists)

get_ffmpeg_path(envVar, exists) ==
    IF envVar # NoPath /\ envVar \in exists THEN envVar
    ELSE FirstExisting(FfmpegFallbacks, exists)

\* home_dir().join("livebot/venv/bin/streamlink"); homes are modelled by the
\* joined path they yield.
HomeJoin(home) == IF home = "/root" THEN "/root/livebot/venv/bin/streamlink"
                  ELSE NoPath

get_streamlink_path(envVar, exists, home) ==
    IF envVar # NoPath /\ envVar \in exists THEN envVar
    ELSE IF home # NoPath /\ HomeJoin(home) \in exists THEN HomeJoin(home)
    ELSE NoPath

-----------------------------------------------------------------------------
(***************************************************************************)
(* Target Resolver: the regular expression  colon, one to five digits     *)
(* (group 1), any run of non-whitespace (group 2)  applied to the ingest   *)
(* input_param: leftmost match, greedy.  Group 1 is parsed as u16 and the  *)
(* result is the colon, the port formatted as a number, and group 2.       *)
(* Text is a sequence of one-character strings.                            *)
(***************************************************************************)
Digits == <<"0", "1", "2", "3", "4", "5", "6", "7", "8", "9">>
IsDigit(ch) == \E i \in 1..10 : Digits[i] = ch
DigitVal(ch) == (CHOOSE i \in 1..10 : Digits[i] = ch) - 1
IsSpace(ch) == ch \in {" ", "\t", "\n"}
NoValidTarget == <<"NoValidTarget">>

\* A fault: the run of digits is not cut at `most`.
RECURSIVE DigitRun_unbounded(_, _, _)
DigitRun_unbounded(s, i, most) ==
    IF i > Len(s) \/ ~IsDigit(s[i]) THEN 0
    ELSE 1 + DigitRun_unbounded(s, i + 1, most)

\* Number of leading digits of s from position i, at most `most`.
RECURSIVE DigitRun(_, _, _)
DigitRun(s, i, most) ==
    IF most = 0 \/ i > Len(s) \/ ~IsDigit(s[i]) THEN 0
    ELSE 1 + DigitRun(s, i + 1, most - 1)

\* Number of leading non-whitespace characters of s from position i.
RECURSIVE NonSpaceRun(_, _)
NonSpaceRun(s, i) ==
    IF i > Len(s) \/ IsSpace(s[i]) THEN 0 ELSE 1 + NonSpaceRun(s, i + 1)

\* A fault: the parse wraps around at 2^16 instead of failing.
RECURSIVE ParseNat_wraps(_)
ParseNat_wraps(ds) ==
    IF ds = <<>> THEN 0
    ELSE (10 * ParseNat_wraps(SubSeq(ds, 1, Len(ds) - 1))
            + DigitVal(ds[Len(ds)])) % 65536

RECURSIVE ParseNat(_)
ParseNat(ds) ==
    IF ds = <<>> THEN 0
    ELSE 10 * ParseNat(SubSeq(ds, 1, Len(ds) - 1)) + DigitVal(ds[Len(ds)])

RECURSIVE FormatNat(_)
FormatNat(n) ==
    IF n < 10 THEN <<Digits[n + 1]>>
    ELSE FormatNat(n \div 10) \o <<Digits[(n % 10) + 1]>>

\* Positions at which the pattern can match: a colon followed by a digit.
MatchStarts(s) ==
    {i \in 1..Len(s) : s[i] = ":" /\ i < Len(s) /\ IsDigit(s[i + 1])}

\* A fault: the last match is taken instead of the first.
Min_last(S) == CHOOSE x \in S : \A y \in S : x >= y
Min(S) == CHOOSE x \in S : \A y \in S : x <= y

extract_rtmp_stream_details(input_param) ==
    IF MatchStarts(input_param) = {} THEN NoValidTarget
    ELSE LET i == Min(MatchStarts(input_param))
             n == DigitRun(input_param, i + 1, 5)
             port_str == SubSeq(input_param, i + 1, i + n)
             k == NonSpaceRun(input_param, i + n + 1)
             stream_key == SubSeq(input_param, i + n + 1, i + n + k)
             port == ParseNat(port_str)
         IN  IF port <= MaxPort
             THEN <<":">> \o FormatNat(port) \o stream_key
             ELSE NoValidTarget

-----------------------------------------------------------------------------
(***************************************************************************)
(* State.                                                                  *)
(***************************************************************************)
VARIABLES
    world,            \* the kinds for which requests arrive in this run
    queued,           \* requests arrive while the registry lock is taken and
                      \* wait for it (TRUE), or arrive when it is free (FALSE)
    environment,      \* what the process sees outside: override variables,
                      \* files on disk, home directory, ingest configuration
    ret,              \* the value a locator or the resolver returned last
    YTBOT_PROCESSES,  \* HashMap<i32, Arc<AsyncMutex<Child>>>: id -> <<child>>
    STREAM_PROCESSES, \* HashMap<i32, (Arc<..>, Arc<..>)>: id -> <<streamlink, ffmpeg>>
    regLock,          \* per kind: the task holding the registry's AsyncMutex
    childState,       \* per pid: "unborn", "alive", "exited" (zombie), "reaped"
    signalled,        \* per pid: SIGKILL has been sent to it
    childLock,        \* per pid: holder of the handle's AsyncMutex<Child>
    copyTask,         \* per streamlink pid: the relay task of its pair
    pc,               \* per task: position of the handler
    req,              \* per task: the request being handled
    held,             \* per task: handles owned by the handler's locals
    kq,               \* per task: handles still to be killed, in order
    kres,             \* per task: results of the kills done so far
    err,              \* per task: the response the handler is to return
    snap,             \* per task: its registry when it took the lock
    sent,             \* per task: pids this request sent SIGKILL to, in order
    waited,           \* per lock holder (handler or relay task): seconds
                      \* spent blocked waiting for an exit
    ctl,              \* holder of the std::sync::Mutex of the
                      \* ChannelController and, per channel, of the
                      \* manager's channel and config
    drain,            \* per pid and captured stream: the log-draining task
                      \* spawned for it and whether the child closed the pipe
    response          \* the request answered by the step just taken, if any,
                      \* and the response it got

\* What no step of the handlers changes between two of its suspension
\* points; a guard of the controller is taken and dropped within one.
setupVars == <<world, queued, environment, ctl>>
regVars == <<YTBOT_PROCESSES, STREAM_PROCESSES>>
procVars == <<childState, signalled, childLock>>
taskVars == <<pc, req, held, kq, kres, err, snap, sent>>
vars == <<world, queued, environment, ret, YTBOT_PROCESSES, STREAM_PROCESSES, regLock, childState,
          signalled, childLock, copyTask, pc, req, held, kq, kres,
          err, waited, snap, sent, ctl, drain, response>>

\* HashMap operations; an absent key is the empty tuple.
EmptyMap == [c \in ChannelIds |-> <<>>]
\* A fault: the presence check of start never finds an entry.
contains_key_never(m, c) == FALSE
contains_key(m, c) == m[c] # <<>>
\* A fault: remove() leaves the entry in the map.
HashMapRemove_keeps(m, c) == m
HashMapRemove(m, c) == [m EXCEPT ![c] = <<>>]
\* The Option that remove() returns: the entry it took out, <<>> for None.
HashMapTake(m, c) == m[c]
HashMapInsert(m, c, e) == [m EXCEPT ![c] = e]

Registry(k) == IF k = "ytbot" THEN YTBOT_PROCESSES ELSE STREAM_PROCESSES
SetRegistry(k, m) ==
    IF k = "ytbot"
    THEN YTBOT_PROCESSES' = m /\ UNCHANGED STREAM_PROCESSES
    ELSE STREAM_PROCESSES' = m /\ UNCHANGED YTBOT_PROCESSES

KindsOf(w) == IF w = "both" THEN Kinds ELSE {w}
PidsNeeded(k) == IF k = "ytbot" THEN 1 ELSE 2
\* Lock-holder identity of the relay task of the pair whose streamlink is p.
CopyHolder(p) == NumTasks + p
Holders == 1..(NumTasks + MaxProcs)

\* The environment of a run in which every start may meet another one
\* (the start draws what it sees from the samples below), or one that is the
\* same for the whole run.
Unpinned ==
    [pinned |-> FALSE, YTBOT_PATH |-> NoPath, FFMPEG_PATH |-> NoPath,
     STREAMLINK_PATH |-> NoPath, exists |-> {}, home |-> NoPath,
     input_param |-> <<>>]

\* Option<String> of a locator, Result<String, _> of the resolver: the
\* function applied and the value it gave, as a tuple of strings.
NoRet == [fn |-> "none", value |-> <<>>]

NoRequest == [kind |-> "none", action |-> "none", id |-> 0, url |-> "none"]
NoResponse == [req |-> NoRequest, resp |-> "none"]

\* ServiceControlParams {action}; StreamParams {action, url: Option<String>}.
\* A url is missing ("none"), unparseable by Url::parse ("bad") or valid;
\* only a livestream start reads it.
Urls == {"none", "bad", "ok"}

Requests(k) ==
    IF k = "ytbot"
    THEN [kind : {"ytbot"}, action : {"start", "stop", "status"},
          id : RequestIds, url : {"none"}]
    ELSE [kind : {"livestream"}, action : {"start"},
          id : RequestIds, url : Urls]
         \cup [kind : {"livestream"}, action : {"stop", "status"},
               id : RequestIds, url : {"none"}]

\* Another task of the process (the other routes, the playout engine) that
\* locks the controller, a channel or a configuration.
OtherTask == NumTasks + 1
CtlFree ==
    [controllers |-> NoTask,
     channel |-> [c \in ChannelIds |-> NoTask],
     config |-> [c \in ChannelIds |-> NoTask]]

\* The piped streams a log-draining task is spawned for: stdout and stderr
\* of the bot and of ffmpeg, stderr of streamlink (its stdout feeds the relay).
Streams == {"stdout", "stderr"}
DrainedStreams(k, i) ==
    IF k = "livestream" /\ i = 1 THEN {"stderr"} ELSE Streams

\* The drains touch nothing a handler reads: the specifications of the
\* handlers leave them out, SpecDrain follows them.
Unobserved == <<>>
\* No task reads the stream; tokio::spawn of the reading loop.
NoDrain == [s \in Streams |-> [task |-> "none", pipe |-> "open"]]
Draining == [task |-> "reading", pipe |-> "open"]
\* The drains after the tokio::spawn calls of a start of kind k whose
\* handles are own.
spawn_drains(dr, k, own) ==
    IF dr = Unobserved THEN dr ELSE
    [p \in Pids |->
       [s \in Streams |->
          IF \E i \in 1..Len(own) : own[i] = p /\ s \in DrainedStreams(k, i)
          THEN Draining ELSE dr[p][s]]]

TypeOK ==
    /\ world \in {"none", "ytbot", "livestream", "both"}
    /\ YTBOT_PROCESSES \in [ChannelIds -> {<<>>} \cup {<<p>> : p \in Pids}]
    /\ STREAM_PROCESSES \in
           [ChannelIds -> {<<>>} \cup {<<p, q>> : p \in Pids, q \in Pids}]
    /\ regLock \in [Kinds -> Tasks \cup {NoTask}]
    /\ childState \in [Pids -> {"unborn", "alive", "exited", "reaped"}]
    /\ signalled \in [Pids -> BOOLEAN]
    /\ queued \in BOOLEAN
    /\ environment.pinned \in BOOLEAN
    /\ pc \in [Tasks -> {"idle", "lock", "insert", "kill", "killWait", "poll",
                         "name", "nameChannel", "nameHeld", "path", "rtmp",
                         "rtmpConfig", "rtmpHeld"}]
    /\ ctl \in [controllers : Tasks \cup {NoTask, OtherTask},
                channel : [ChannelIds -> Tasks \cup {NoTask, OtherTask}],
                config : [ChannelIds -> Tasks \cup {NoTask, OtherTask}]]
    /\ waited \in [Holders -> 0..(TimeoutSecs + 1)]
    /\ req \in [Tasks -> {NoRequest} \cup UNION {Requests(k) : k \in Kinds}]
    /\ response.req \in {NoRequest} \cup UNION {Requests(k) : k \in Kinds}
    /\ \/ drain = Unobserved
       \/ drain \in [Pids -> [Streams -> [task : {"none", "reading", "ended"},
                                          pipe : {"open", "closed"}]]]

\* Nothing is registered, no child exists, every worker is idle.
Boot ==
    /\ YTBOT_PROCESSES = EmptyMap
    /\ STREAM_PROCESSES = EmptyMap
    /\ regLock = [k \in Kinds |-> NoTask]
    /\ childState = [p \in Pids |-> "unborn"]
    /\ signalled = [p \in Pids |-> FALSE]
    /\ childLock = [p \in Pids |-> NoTask]
    /\ copyTask = [p \in Pids |-> [pc |-> "none", ffmpeg |-> 0]]
    /\ pc = [t \in Tasks |-> "idle"]
    /\ req = [t \in Tasks |-> NoRequest]
    /\ held = [t \in Tasks |-> <<>>]
    /\ kq = [t \in Tasks |-> <<>>]
    /\ kres = [t \in Tasks |-> <<>>]
    /\ err = [t \in Tasks |-> "none"]
    /\ waited = [h \in Holders |-> 0]
    /\ snap = [t \in Tasks |-> EmptyMap]
    /\ sent = [t \in Tasks |-> <<>>]
    /\ response = NoResponse
    /\ ret = NoRet
    /\ ctl = CtlFree

Init ==
    /\ world \in {"ytbot", "livestream"}
    /\ queued = FALSE
    /\ environment = Unpinned
    /\ drain = Unobserved
    /\ Boot

-----------------------------------------------------------------------------
(***************************************************************************)
(* Inputs of a start attempt: what the environment answers.                *)
(***************************************************************************)
EnvSamples == {NoPath, "/opt/tool"}
FsSamples == {{}, {"/opt/tool"}, {"/usr/local/bin/ytbot.py", "/usr/local/bin/ffmpeg",
                                  "/root/livebot/venv/bin/streamlink"}}
HomeSamples == {NoPath, "/root"}
IngestSamples ==
    { <<"-", "i", " ", "r", ":", "/", "h", ":", "1", "9", "3", "5", "/", "k", " ", "x">>,
      <<"-", "i", " ", "r", ":", "/", "h">>,
      <<":", "7", "0", "0", "0", "0", " ", ":", "8", "0">> }

(***************************************************************************)
(* The decision chain of a start once the channel has no entry: the        *)
(* response, how many children were spawned on the way (`spawned`) and     *)
(* which of them the failure path kills before it returns (`kills`, by     *)
(* position: 1 the first child spawned, 2 the second).                     *)
(***************************************************************************)
Outcome(r, n, ks) == [resp |-> r, spawned |-> n, kills |-> ks]

\* A fault: a chain that failed after a spawn goes on to the insert.
StartFails_unnoticed(o) == FALSE
\* The chain ended in an early return with an error.
StartFails(o) == o.resp # "Started"

ytbot_start(envVar, exists, ingest, spawnOk, take) ==
    IF get_ytbot_path(envVar, exists) = NoPath
    THEN Outcome("ExecutableNotFound", 0, <<>>)
    ELSE IF extract_rtmp_stream_details(ingest) = NoValidTarget
    THEN Outcome("NoValidTarget", 0, <<>>)
    ELSE IF ~spawnOk
    THEN Outcome("SpawnFailed", 0, <<>>)
    ELSE IF take \in {"stdout", "stderr"}
    THEN Outcome("PipeAcquisitionFailed", 1, <<1>>)
    ELSE Outcome("Started", 1, <<>>)

\* A fault: the url of the request is not looked at.
livestream_start_anyurl(url, slEnv, ffEnv, exists, home, ingest, spawnFail, take) ==
    IF get_streamlink_path(slEnv, exists, home) = NoPath
    THEN Outcome("ExecutableNotFound", 0, <<>>)
    ELSE IF get_ffmpeg_path(ffEnv, exists) = NoPath
    THEN Outcome("ExecutableNotFound", 0, <<>>)
    ELSE IF spawnFail = "streamlink"
    THEN Outcome("SpawnFailed", 0, <<>>)
    ELSE IF take \in {"sl_stdout", "sl_stderr"}
    THEN Outcome("PipeAcquisitionFailed", 1, <<1>>)
    ELSE IF extract_rtmp_stream_details(ingest) = NoValidTarget
    THEN Outcome("NoValidTarget", 1, <<1>>)
    ELSE IF spawnFail = "ffmpeg"
    THEN Outcome("SpawnFailed", 1, <<1>>)
    ELSE IF take \in {"ff_stdin", "ff_stdout", "ff_stderr"}
    THEN Outcome("PipeAcquisitionFailed", 2, <<1, 2>>)
    ELSE Outcome("Started", 2, <<>>)

livestream_start(url, slEnv, ffEnv, exists, home, ingest, spawnFail, take) ==
    IF url = "none"
    THEN Outcome("UrlMissing", 0, <<>>)
    ELSE IF url = "bad"
    THEN Outcome("UrlInvalid", 0, <<>>)
    ELSE IF get_streamlink_path(slEnv, exists, home) = NoPath
    THEN Outcome("ExecutableNotFound", 0, <<>>)
    ELSE IF get_ffmpeg_path(ffEnv, exists) = NoPath
    THEN Outcome("ExecutableNotFound", 0, <<>>)
    ELSE IF spawnFail = "streamlink"
    THEN Outcome("SpawnFailed", 0, <<>>)
    ELSE IF take \in {"sl_stdout", "sl_stderr"}
    THEN Outcome("PipeAcquisitionFailed", 1, <<1>>)
    ELSE IF extract_rtmp_stream_details(ingest) = NoValidTarget
    THEN Outcome("NoValidTarget", 1, <<1>>)
    ELSE IF spawnFail = "ffmpeg"
    THEN Outcome("SpawnFailed", 1, <<1>>)
    ELSE IF take \in {"ff_stdin", "ff_stdout", "ff_stderr"}
    THEN Outcome("PipeAcquisitionFailed", 2, <<1, 2>>)
    ELSE Outcome("Started", 2, <<>>)

\* What a start can come to, over the inputs of the model.
YtbotStartOutcomes ==
    { ytbot_start(e, x, i, s, k) :
        e \in EnvSamples, x \in FsSamples, i \in IngestSamples,
        s \in BOOLEAN, k \in {"ok", "stdout", "stderr"} }

LivestreamStartOutcomes(url) ==
    { livestream_start(url, e1, e2, x, h, i, s, k) :
        e1 \in EnvSamples, e2 \in EnvSamples, x \in FsSamples,
        h \in HomeSamples, i \in IngestSamples,
        s \in {"none", "streamlink", "ffmpeg"},
        k \in {"ok", "sl_stdout", "sl_stderr", "ff_stdin", "ff_stdout",
               "ff_stderr"} }

LivestreamStartTable == [u \in Urls |-> LivestreamStartOutcomes(u)]

\* The same in a run whose environment is state: the locators and the
\* resolver see `environment`; a spawn or a take() can still fail.
YtbotStartSet ==
    IF environment.pinned
    THEN { ytbot_start(environment.YTBOT_PATH, environment.exists,
                       environment.input_param, s, k) :
             s \in BOOLEAN, k \in {"ok", "stdout", "stderr"} }
    ELSE YtbotStartOutcomes

LivestreamStartSet(url) ==
    IF environment.pinned
    THEN { livestream_start(url, environment.STREAMLINK_PATH,
                            environment.FFMPEG_PATH, environment.exists,
                            environment.home, environment.input_param, s, k) :
             s \in {"none", "streamlink", "ffmpeg"},
             k \in {"ok", "sl_stdout", "sl_stderr", "ff_stdin", "ff_stdout",
                    "ff_stderr"} }
    ELSE LivestreamStartTable[url]


(***************************************************************************)
(* Pieces shared by the handlers.                                          *)
(***************************************************************************)
\* A fault: the lookup succeeds for an id the controller does not hold.
get_channel_name_found(id) == "Ok"
get_channel_name(id) == IF id \in ChannelIds THEN "Ok" ELSE "Err"

\* Request r is at worker t: the worker is free to take it, or (queued
\* arrivals) the handler of r is parked at  PROCESSES.lock().await .
Arrived(t, r) ==
    IF queued THEN pc[t] = "lock" /\ req[t] = r ELSE pc[t] = "idle"

\* A fault: the handler goes on without the registry lock being free.
AtLock_unlocked(t, r) ==
    /\ Arrived(t, r)
    /\ r \in Requests(r.kind) /\ r.kind \in KindsOf(world)
    /\ get_channel_name(r.id) = "Ok"

\* A fault: one lock guards both registries.
AtLock_global(t, r) ==
    /\ Arrived(t, r)
    /\ r \in Requests(r.kind) /\ r.kind \in KindsOf(world)
    /\ get_channel_name(r.id) = "Ok"
    /\ \A k \in Kinds : regLock[k] = NoTask

\* Request r reaches worker t, its channel exists, and its handler gets
\* through  PROCESSES.lock().await : the registry lock is free.  (While the
\* lock is taken the handler waits there, having done nothing yet.)
AtLock(t, r) ==
    /\ Arrived(t, r)
    /\ r \in Requests(r.kind) /\ r.kind \in KindsOf(world)
    /\ get_channel_name(r.id) = "Ok"
    /\ regLock[r.kind] = NoTask

\* The handler of request r returns x: its locals are dropped, and so is
\* the registry guard.
Return(t, r, x) ==
    /\ pc' = [pc EXCEPT ![t] = "idle"]
    /\ req' = [req EXCEPT ![t] = NoRequest]
    /\ response' = [req |-> r, resp |-> x]
    /\ held' = [held EXCEPT ![t] = <<>>]
    /\ kq' = [kq EXCEPT ![t] = <<>>]
    /\ kres' = [kres EXCEPT ![t] = <<>>]
    /\ err' = [err EXCEPT ![t] = "none"]
    /\ snap' = [snap EXCEPT ![t] = EmptyMap]
    /\ sent' = [sent EXCEPT ![t] = <<>>]
    /\ regLock' = [regLock EXCEPT ![r.kind] = NoTask]

\* A fault: the handler lets go of the registry guard when it suspends.
Suspend_unguarded(t, r, p, own, q, rs, e, sn, sg) ==
    /\ pc' = [pc EXCEPT ![t] = p]
    /\ req' = [req EXCEPT ![t] = r]
    /\ response' = NoResponse
    /\ held' = [held EXCEPT ![t] = own]
    /\ kq' = [kq EXCEPT ![t] = q]
    /\ kres' = [kres EXCEPT ![t] = rs]
    /\ err' = [err EXCEPT ![t] = e]
    /\ snap' = [snap EXCEPT ![t] = sn]
    /\ sent' = [sent EXCEPT ![t] = sg]
    /\ regLock' = [regLock EXCEPT ![r.kind] = NoTask]

\* The handler of request r suspends at position p holding the registry
\* guard, with locals: the handles it owns, the handles still to kill, the
\* results of the kills done, the error to return, the registry it found
\* when it took the lock, and the pids it has signalled.
Suspend(t, r, p, own, q, rs, e, sn, sg) ==
    /\ pc' = [pc EXCEPT ![t] = p]
    /\ req' = [req EXCEPT ![t] = r]
    /\ response' = NoResponse
    /\ held' = [held EXCEPT ![t] = own]
    /\ kq' = [kq EXCEPT ![t] = q]
    /\ kres' = [kres EXCEPT ![t] = rs]
    /\ err' = [err EXCEPT ![t] = e]
    /\ snap' = [snap EXCEPT ![t] = sn]
    /\ sent' = [sent EXCEPT ![t] = sg]
    /\ regLock' = [regLock EXCEPT ![r.kind] = t]

\* The pids the operating system hands out next: the free ones, in order.
\* (Runs with queued arrivals use the first QueuedProcs pids only.)
FreePids ==
    {p \in (IF queued THEN 1..QueuedProcs ELSE Pids) : childState[p] = "unborn"}
nextPid == Min(FreePids)
nextPid2 == Min(FreePids \ {nextPid})
\* The first n children a start spawns.
Children(n) == IF n = 1 THEN <<nextPid>> ELSE <<nextPid, nextPid2>>

\* Command::spawn() of the children ps: they run.
Spawn(ps) ==
    [p \in Pids |-> IF \E i \in 1..Len(ps) : ps[i] = p THEN "alive"
                    ELSE childState[p]]

\* A fault: the failure paths kill nothing.
KillList_none(ps, ks) == <<>>
\* The handles a failure path kills: positions ks of the children ps.
KillList(ps, ks) == [i \in 1..Len(ks) |-> ps[ks[i]]]

\* Children that have exited and to which no handle refers any more: no
\* registry entry, no handler local, no running relay task.
Referenced(p) ==
    \/ \E c \in ChannelIds :
          \/ \E i \in 1..Len(YTBOT_PROCESSES[c]) : YTBOT_PROCESSES[c][i] = p
          \/ \E i \in 1..Len(STREAM_PROCESSES[c]) : STREAM_PROCESSES[c][i] = p
    \/ \E t \in Tasks : \E i \in 1..Len(held[t]) : held[t][i] = p
    \/ \E q \in Pids :
          /\ copyTask[q].pc \notin {"none", "done"}
          /\ p \in {q, copyTask[q].ffmpeg}

Garbage == {p \in Pids : childState[p] \in {"exited", "reaped"} /\ ~Referenced(p)}

-----------------------------------------------------------------------------
(***************************************************************************)
(* The tokio Child operations.                                             *)
(***************************************************************************)
\* What start_kill() answers for a child already reaped depends on the
\* tokio release: Ok(()) without any signal, or Err(InvalidInput).
ReapedKill == {"noop", "err"}

\* Child::start_kill(): SIGKILL is sent to a child that has not been reaped
\* (a zombie included); `ver` is the answer for one that has.
start_kill(st, ver) == IF st = "reaped" THEN ver ELSE "sent"

\* Child::try_wait(): Ok(Some(status)) once the child has exited,
\* Ok(None) while it runs, or an io::Error.
try_wait(st) == IF st = "alive" THEN {"None", "Err"} ELSE {"Some", "Err"}

\* timeout(Duration::from_secs(5), child.wait()): a child already reaped
\* answers at once with its cached status.
timeout_wait(st) == IF st = "reaped" THEN {"Ok"} ELSE {"Ok", "Timeout"}

\* The match on the results of kill_and_wait_with_timeout: the response of
\* stop.  The cause of a failure is the logged error text.
stop_response(rs) ==
    IF \A i \in 1..Len(rs) : rs[i] = "Ok" THEN "Stopped"
    ELSE IF \E i \in 1..Len(rs) : rs[i] = "Timeout" THEN "KillTimeout"
    ELSE "KillError"

(***************************************************************************)
(* The kills of the handles q in order, as far as they go without          *)
(* suspending: child.lock().await suspends when the handle is locked       *)
(* (position kill); child.kill().await suspends in its wait() once the     *)
(* signal is sent (position killWait); a child already reaped is answered  *)
(* at once.  cs and cl are the child states and child locks to start from. *)
(***************************************************************************)
\* A fault: after a kill that failed the remaining handles are left alone.
RECURSIVE Drive_abandons(_, _, _, _, _)
Drive_abandons(q, rs, cs, cl, ver) ==
    IF q = <<>> \/ (rs # <<>> /\ rs[Len(rs)] # "Ok")
    THEN [pc |-> "return", kq |-> <<>>, kres |-> rs]
    ELSE IF cl[Head(q)] # NoTask THEN [pc |-> "kill", kq |-> q, kres |-> rs]
    ELSE IF start_kill(cs[Head(q)], ver) = "sent"
    THEN [pc |-> "killWait", kq |-> q, kres |-> rs]
    ELSE Drive_abandons(Tail(q),
                        Append(rs, IF start_kill(cs[Head(q)], ver) = "noop"
                                   THEN "Ok" ELSE "Err"),
                        cs, cl, ver)

RECURSIVE Drive(_, _, _, _, _)
Drive(q, rs, cs, cl, ver) ==
    IF q = <<>> THEN [pc |-> "return", kq |-> q, kres |-> rs]
    ELSE IF cl[Head(q)] # NoTask THEN [pc |-> "kill", kq |-> q, kres |-> rs]
    ELSE IF start_kill(cs[Head(q)], ver) = "sent"
    THEN [pc |-> "killWait", kq |-> q, kres |-> rs]
    ELSE Drive(Tail(q),
               Append(rs, IF start_kill(cs[Head(q)], ver) = "noop"
                          THEN "Ok" ELSE "Err"),
               cs, cl, ver)

\* The handler of r goes on with the kills of q; when none is left it
\* returns (stop: the response of the results; a failed start: its error).
Proceed(t, r, own, q, rs, e, sn, cs, cl) ==
    \E ver \in ReapedKill :
      LET d == Drive(q, rs, cs, cl, ver) IN
      IF d.pc = "return"
      THEN /\ Return(t, r, IF r.action = "stop" THEN stop_response(d.kres)
                           ELSE e)
           /\ childLock' = cl
           /\ UNCHANGED signalled
      ELSE IF d.pc = "kill"
      THEN /\ Suspend(t, r, "kill", own, d.kq, d.kres, e, sn, sent[t])
           /\ childLock' = cl
           /\ UNCHANGED signalled
      ELSE /\ Suspend(t, r, "killWait", own, d.kq, d.kres, e, sn,
                      Append(sent[t], Head(d.kq)))
           /\ childLock' = [cl EXCEPT ![Head(d.kq)] = t]
           /\ signalled' = [signalled EXCEPT
                              ![Head(d.kq)] = (cs[Head(d.kq)] = "alive")]

-----------------------------------------------------------------------------
\* get_channel_name fails: the handler ends before any registry access.
LookupFails(t) ==
    /\ Garbage = {}
    /\ pc[t] = "idle"
    /\ \E k \in KindsOf(world) : \E r \in Requests(k) :
         /\ get_channel_name(r.id) = "Err"
         /\ response' = [req |-> r, resp |-> "ChannelLookupFailed"]
    /\ UNCHANGED <<setupVars, drain, ret, regVars, regLock, procVars, copyTask, taskVars,
                   waited>>

(***************************************************************************)
(* ytbot_control, ServiceAction::Start, up to the spawn of the log drains; *)
(* StartInsert is the rest.                                                *)
(***************************************************************************)
YtbotStart(t) ==
    /\ Garbage = {}
    /\ \E c \in ChannelIds :
       LET r == [kind |-> "ytbot", action |-> "start", id |-> c, url |-> "none"]
           p == nextPid
       IN
       /\ AtLock(t, r)
       /\ IF contains_key(YTBOT_PROCESSES, c)
          THEN /\ Return(t, r, "AlreadyRunning")
               /\ UNCHANGED <<regVars, procVars, copyTask>>
          ELSE \E o \in YtbotStartSet :
               /\ o.spawned <= Cardinality(FreePids)
               /\ IF o.spawned = 0
                  THEN /\ Return(t, r, o.resp)
                       /\ UNCHANGED <<regVars, procVars, copyTask>>
                  ELSE IF StartFails(o)
                  THEN \* stdout.take() or stderr.take() gave None
                       /\ childState' = Spawn(<<p>>)
                       /\ Proceed(t, r, <<p>>, KillList(<<p>>, o.kills), <<>>,
                                  o.resp, YTBOT_PROCESSES, Spawn(<<p>>),
                                  childLock)
                       /\ UNCHANGED <<regVars, copyTask>>
                  ELSE /\ childState' = Spawn(<<p>>)
                       /\ Suspend(t, r, "insert", <<p>>, <<>>, <<>>, o.resp,
                                  YTBOT_PROCESSES, <<>>)
                       /\ UNCHANGED <<regVars, signalled, childLock, copyTask>>
    /\ UNCHANGED <<setupVars, drain, ret, waited>>

(***************************************************************************)
(* livestream_control, StreamAction::Start, up to the spawn of the relay   *)
(* task and the log drains; StartInsert is the rest.                       *)
(***************************************************************************)
LivestreamStart(t) ==
    /\ Garbage = {}
    /\ \E c \in ChannelIds : \E u \in Urls :
       LET r == [kind |-> "livestream", action |-> "start", id |-> c, url |-> u]
           sl == nextPid
           ff == nextPid2
       IN
       /\ AtLock(t, r)
       /\ IF contains_key(STREAM_PROCESSES, c)
          THEN /\ Return(t, r, "AlreadyRunning")
               /\ UNCHANGED <<regVars, procVars, copyTask>>
          ELSE \E o \in LivestreamStartSet(u) :
               /\ o.spawned <= Cardinality(FreePids)
               /\ IF o.spawned = 0
                  THEN /\ Return(t, r, o.resp)
                       /\ UNCHANGED <<regVars, procVars, copyTask>>
                  ELSE IF StartFails(o)
                  THEN \* a failure after streamlink (and maybe ffmpeg) was
                       \* spawned
                       /\ childState' = Spawn(Children(o.spawned))
                       /\ Proceed(t, r, Children(o.spawned),
                                  KillList(Children(o.spawned), o.kills),
                                  <<>>, o.resp, STREAM_PROCESSES,
                                  Spawn(Children(o.spawned)), childLock)
                       /\ UNCHANGED <<regVars, copyTask>>
                  ELSE \* every pipe is taken: tokio::spawn(copy_task)
                       /\ childState' = Spawn(<<sl, ff>>)
                       /\ copyTask' = [copyTask EXCEPT
                                         ![sl] = [pc |-> "copying", ffmpeg |-> ff]]
                       /\ Suspend(t, r, "insert", <<sl, ff>>, <<>>, <<>>,
                                  o.resp, STREAM_PROCESSES, <<>>)
                       /\ UNCHANGED <<regVars, signalled, childLock>>
    /\ UNCHANGED <<setupVars, drain, ret, waited>>

\* tokio::spawn of the log drains; processes.insert(channel_id, handles);
\* the guard drops; Ok(started)
StartInsert(t) ==
    /\ Garbage = {}
    /\ pc[t] = "insert"
    /\ drain' = spawn_drains(drain, req[t].kind, held[t])
    /\ SetRegistry(req[t].kind,
                   HashMapInsert(Registry(req[t].kind), req[t].id, held[t]))
    /\ Return(t, req[t], err[t])
    /\ UNCHANGED <<setupVars, ret, procVars, copyTask, waited>>

(***************************************************************************)
(* ytbot_control / livestream_control, Stop: remove the entry, then        *)
(* kill_and_wait_with_timeout for each handle in order.                    *)
(***************************************************************************)
\* A fault: a stop that finds no entry empties the registry.
NotRunning_clears(t, r) ==
    /\ Return(t, r, "NotRunning")
    /\ SetRegistry(r.kind, EmptyMap)
    /\ UNCHANGED <<signalled, childLock>>

\* The else branch of  if let Some(..) = processes.remove(&channel_id) .
NotRunning(t, r) ==
    /\ Return(t, r, "NotRunning")
    /\ UNCHANGED <<regVars, signalled, childLock>>

Stop(t, k) ==
    /\ Garbage = {}
    /\ \E c \in ChannelIds :
       LET r == [kind |-> k, action |-> "stop", id |-> c, url |-> "none"]
           entry == HashMapTake(Registry(k), c)
       IN
       /\ AtLock(t, r)
       /\ IF entry # <<>>
          THEN /\ SetRegistry(k, HashMapRemove(Registry(k), c))
               /\ Proceed(t, r, entry, entry, <<>>, "none", Registry(k),
                          childState, childLock)
          ELSE NotRunning(t, r)
    /\ UNCHANGED <<setupVars, drain, ret, childState, copyTask, waited>>

YtbotStop(t) == Stop(t, "ytbot")
LivestreamStop(t) == Stop(t, "livestream")

\* child.lock().await returns: the handle the handler waited for is free.
KillSignal(t) ==
    /\ Garbage = {}
    /\ pc[t] = "kill"
    /\ childLock[Head(kq[t])] = NoTask
    /\ Proceed(t, req[t], held[t], kq[t], kres[t], err[t], snap[t],
               childState, childLock)
    /\ UNCHANGED <<setupVars, drain, ret, regVars, childState, copyTask, waited>>

\* The wait() inside child.kill().await, which has no timeout, and after it
\* (stop only) timeout(5 s, child.wait()); then the guard of the handle
\* drops and the handler goes on with the next one.
KillWait(t) ==
    /\ Garbage = {}
    /\ pc[t] = "killWait"
    /\ LET p == Head(kq[t])
           reaped == [childState EXCEPT ![p] = "reaped"]
           unlocked == [childLock EXCEPT ![p] = NoTask]
       IN
       \/ /\ childState[p] # "alive"
          /\ childState' = reaped
          /\ \E x \in (IF req[t].action = "stop"
                       THEN timeout_wait(reaped[p]) ELSE {"Ok"}) :
               Proceed(t, req[t], held[t], Tail(kq[t]), Append(kres[t], x),
                       err[t], snap[t], reaped, unlocked)
       \/ \* wait() returned an io::Error
          /\ UNCHANGED childState
          /\ Proceed(t, req[t], held[t], Tail(kq[t]), Append(kres[t], "Err"),
                     err[t], snap[t], childState, unlocked)
    /\ waited' = [waited EXCEPT ![t] = 0]
    /\ UNCHANGED <<setupVars, drain, ret, regVars, copyTask>>

(***************************************************************************)
(* is_ytbot_active / is_ffmpeg_livestream_active: remove the entry, lock   *)
(* the polled handle (the bot; ffmpeg of a pair), try_wait, re-insert only *)
(* on Ok(None).                                                            *)
(***************************************************************************)
\* The handle status polls: the last of the entry.
Polled(entry) == entry[Len(entry)]

\* process.try_wait() on the locked handle of `entry`, removed from the
\* registry of which m is what is left, and the match on its result.
Poll(t, r, entry, m) ==
    \E o \in try_wait(childState[Polled(entry)]) :
      IF o = "Some"
      THEN /\ childState' = [childState EXCEPT ![Polled(entry)] = "reaped"]
           /\ SetRegistry(r.kind, m)
           /\ Return(t, r, "Inactive")
      ELSE IF o = "None"
      THEN /\ SetRegistry(r.kind, HashMapInsert(m, r.id, entry))
           /\ Return(t, r, "Active")
           /\ UNCHANGED childState
      ELSE /\ SetRegistry(r.kind, m)
           /\ Return(t, r, "StatusError")
           /\ UNCHANGED childState

Status(t, k) ==
    /\ Garbage = {}
    /\ \E c \in ChannelIds :
       LET r == [kind |-> k, action |-> "status", id |-> c, url |-> "none"]
           entry == HashMapTake(Registry(k), c)
       IN
       /\ AtLock(t, r)
       /\ IF entry = <<>>
          THEN /\ Return(t, r, "Inactive")
               /\ UNCHANGED <<regVars, childState>>
          ELSE IF childLock[Polled(entry)] # NoTask
          THEN \* process.lock().await suspends
               /\ SetRegistry(k, HashMapRemove(Registry(k), c))
               /\ Suspend(t, r, "poll", entry, <<>>, <<>>, "none",
                          Registry(k), <<>>)
               /\ UNCHANGED childState
          ELSE Poll(t, r, entry, HashMapRemove(Registry(k), c))
    /\ UNCHANGED <<setupVars, drain, ret, signalled, childLock, copyTask, waited>>

is_ytbot_active(t) == Status(t, "ytbot")
is_ffmpeg_livestream_active(t) == Status(t, "livestream")

\* process.lock().await returns: the polled handle is free.
StatusPoll(t) ==
    /\ Garbage = {}
    /\ pc[t] = "poll"
    /\ childLock[Polled(held[t])] = NoTask
    /\ Poll(t, req[t], held[t], Registry(req[t].kind))
    /\ UNCHANGED <<setupVars, drain, ret, signalled, childLock, copyTask, waited>>

(***************************************************************************)
(* The relay task of a pair: tokio::io::copy(streamlink stdout -> ffmpeg   *)
(* stdin); on Err it locks streamlink, then ffmpeg, and kills both.        *)
(***************************************************************************)
SetCopy(p, s) ==
    /\ copyTask' = [copyTask EXCEPT ![p].pc = s]
    /\ response' = NoResponse

CopyEnds(p) ==
    /\ Garbage = {}
    /\ copyTask[p].pc = "copying"
    /\ \/ \* a write to the closed stdin of an exited ffmpeg fails
          /\ childState[copyTask[p].ffmpeg] # "alive"
          /\ SetCopy(p, "lockStreamlink")
       \/ \* end of file on the stdout of an exited streamlink: Ok(_)
          /\ childState[p] # "alive"
          /\ SetCopy(p, "done")
    /\ UNCHANGED <<setupVars, drain, ret, regVars, regLock, procVars, taskVars, waited>>

CopyLockStreamlink(p) ==
    /\ Garbage = {}
    /\ copyTask[p].pc = "lockStreamlink"
    /\ childLock[p] = NoTask
    /\ childLock' = [childLock EXCEPT ![p] = CopyHolder(p)]
    /\ SetCopy(p, "lockFfmpeg")
    /\ UNCHANGED <<setupVars, drain, ret, regVars, regLock, childState, signalled,
                   taskVars, waited>>

\* ffmpeg_process_clone.lock().await, then streamlink_process.kill() up to
\* its signal.
CopyLockFfmpeg(p) ==
    /\ Garbage = {}
    /\ copyTask[p].pc = "lockFfmpeg"
    /\ childLock[copyTask[p].ffmpeg] = NoTask
    /\ childLock' = [childLock EXCEPT ![copyTask[p].ffmpeg] = CopyHolder(p)]
    /\ \E ver \in ReapedKill :
         IF start_kill(childState[p], ver) = "sent"
         THEN /\ signalled' = [signalled EXCEPT
                                  ![p] = (childState[p] = "alive")]
              /\ SetCopy(p, "waitStreamlink")
         ELSE /\ SetCopy(p, "killFfmpeg")
              /\ UNCHANGED signalled
    /\ UNCHANGED <<setupVars, drain, ret, regVars, regLock, childState, taskVars, waited>>

\* The wait() inside streamlink_process.kill().await; its result is dropped.
CopyWaitStreamlink(p) ==
    /\ Garbage = {}
    /\ copyTask[p].pc = "waitStreamlink"
    /\ \/ /\ childState[p] # "alive"
          /\ childState' = [childState EXCEPT ![p] = "reaped"]
       \/ UNCHANGED childState
    /\ SetCopy(p, "killFfmpeg")
    /\ waited' = [waited EXCEPT ![CopyHolder(p)] = 0]
    /\ UNCHANGED <<setupVars, drain, ret, regVars, regLock, signalled, childLock,
                   taskVars>>

\* ffmpeg_process.kill() up to its signal.
CopyKillFfmpeg(p) ==
    /\ Garbage = {}
    /\ copyTask[p].pc = "killFfmpeg"
    /\ LET f == copyTask[p].ffmpeg IN
       \E ver \in ReapedKill :
         IF start_kill(childState[f], ver) = "sent"
         THEN /\ signalled' = [signalled EXCEPT
                                  ![f] = (childState[f] = "alive")]
              /\ SetCopy(p, "waitFfmpeg")
              /\ UNCHANGED childLock
         ELSE /\ SetCopy(p, "done")
              /\ childLock' = [childLock EXCEPT ![p] = NoTask, ![f] = NoTask]
              /\ UNCHANGED signalled
    /\ UNCHANGED <<setupVars, drain, ret, regVars, regLock, childState, taskVars, waited>>

\* A fault: the relay task ends without dropping the guards of its pair.
CopyWaitFfmpeg_holds(p) ==
    /\ Garbage = {}
    /\ copyTask[p].pc = "waitFfmpeg"
    /\ \/ /\ childState[copyTask[p].ffmpeg] # "alive"
          /\ childState' = [childState EXCEPT ![copyTask[p].ffmpeg] = "reaped"]
       \/ UNCHANGED childState
    /\ SetCopy(p, "done")
    /\ UNCHANGED <<setupVars, drain, ret, regVars, regLock, signalled, childLock,
                   taskVars, waited>>

\* The wait() inside ffmpeg_process.kill().await; then both guards drop.
CopyWaitFfmpeg(p) ==
    /\ Garbage = {}
    /\ copyTask[p].pc = "waitFfmpeg"
    /\ LET f == copyTask[p].ffmpeg IN
       /\ \/ /\ childState[f] # "alive"
             /\ childState' = [childState EXCEPT ![f] = "reaped"]
          \/ UNCHANGED childState
       /\ childLock' = [childLock EXCEPT ![p] = NoTask, ![f] = NoTask]
    /\ SetCopy(p, "done")
    /\ UNCHANGED <<setupVars, drain, ret, regVars, regLock, signalled, taskVars, waited>>

(***************************************************************************)
(* The environment: a child exits (on its own, killed from outside, or     *)
(* as the effect of a SIGKILL already sent).                               *)
(***************************************************************************)
ProcExit(p) ==
    /\ Garbage = {}
    /\ childState[p] = "alive"
    /\ childState' = [childState EXCEPT ![p] = "exited"]
    /\ signalled' = [signalled EXCEPT ![p] = FALSE]
    /\ response' = NoResponse
    /\ UNCHANGED <<setupVars, drain, ret, regVars, regLock, childLock, copyTask, taskVars,
                   waited>>

(***************************************************************************)
(* A child that has exited and to which no handle refers any more (no      *)
(* registry entry, no handler local, no running relay task) is forgotten:  *)
(* tokio reaps a dropped child from its orphan queue and the operating     *)
(* system frees the pid.  Nothing can observe such a child, so it is       *)
(* forgotten before anything else happens.                                 *)
(***************************************************************************)
Forget ==
    /\ Garbage # {}
    /\ childState' = [p \in Pids |->
                        IF p \in Garbage THEN "unborn" ELSE childState[p]]
    /\ copyTask' = [p \in Pids |->
                      IF p \in Garbage THEN [pc |-> "none", ffmpeg |-> 0]
                      ELSE copyTask[p]]
    /\ drain' = IF drain = Unobserved THEN drain
                ELSE [p \in Pids |-> IF p \in Garbage THEN NoDrain ELSE drain[p]]
    /\ response' = NoResponse
    /\ UNCHANGED <<setupVars, ret, regVars, regLock, signalled, childLock, taskVars,
                   waited>>

Next ==
    \/ Forget
    \/ \E t \in Tasks :
         \/ LookupFails(t)
         \/ YtbotStart(t)
         \/ LivestreamStart(t)
         \/ StartInsert(t)
         \/ YtbotStop(t)
         \/ LivestreamStop(t)
         \/ KillSignal(t)
         \/ KillWait(t)
         \/ is_ytbot_active(t)
         \/ is_ffmpeg_livestream_active(t)
         \/ StatusPoll(t)
    \/ \E p \in Pids :
         \/ ProcExit(p)
         \/ CopyEnds(p)
         \/ CopyLockStreamlink(p)
         \/ CopyLockFfmpeg(p)
         \/ CopyWaitStreamlink(p)
         \/ CopyKillFfmpeg(p)
         \/ CopyWaitFfmpeg(p)

Spec == Init /\ [][Next]_vars

(***************************************************************************)
(* Time: a second passes for a stop blocked in the wait of kill().await    *)
(* on a child that does not exit.                                          *)
(***************************************************************************)
Tick(t) ==
    /\ Garbage = {}
    /\ pc[t] = "killWait"
    /\ req[t].action = "stop"
    /\ childState[Head(kq[t])] = "alive"
    /\ waited[t] <= TimeoutSecs
    /\ waited' = [waited EXCEPT ![t] = waited[t] + 1]
    /\ response' = NoResponse
    /\ UNCHANGED <<setupVars, drain, ret, regVars, regLock, procVars, copyTask, taskVars>>

\* A second passes for a relay task blocked in the wait of
\* streamlink_process.kill().await on a streamlink that does not exit.
TickRelay(p) ==
    /\ Garbage = {}
    /\ copyTask[p].pc = "waitStreamlink"
    /\ childState[p] = "alive"
    /\ waited[CopyHolder(p)] <= TimeoutSecs
    /\ waited' = [waited EXCEPT ![CopyHolder(p)] = waited[CopyHolder(p)] + 1]
    /\ response' = NoResponse
    /\ UNCHANGED <<setupVars, drain, ret, regVars, regLock, procVars, copyTask, taskVars>>

\* The companion bot alone, with time.
NextTimed ==
    \/ Forget
    \/ \E t \in Tasks :
         \/ YtbotStart(t)
         \/ StartInsert(t)
         \/ YtbotStop(t)
         \/ KillWait(t)
         \/ Tick(t)
    \/ \E p \in Pids : ProcExit(p)

InitTimed == Init /\ world = "ytbot"

SpecTimed == InitTimed /\ [][NextTimed]_vars

\* The start, the status and the relay of the stream pairs, with time.
NextRelayTimed ==
    \/ Forget
    \/ \E t \in Tasks :
         \/ LivestreamStart(t)
         \/ StartInsert(t)
         \/ KillWait(t)
         \/ is_ffmpeg_livestream_active(t)
         \/ StatusPoll(t)
    \/ \E p \in Pids :
         \/ ProcExit(p)
         \/ CopyEnds(p)
         \/ CopyLockStreamlink(p)
         \/ CopyLockFfmpeg(p)
         \/ CopyWaitStreamlink(p)
         \/ CopyKillFfmpeg(p)
         \/ CopyWaitFfmpeg(p)
         \/ TickRelay(p)

InitRelayTimed == Init /\ world = "livestream"

SpecRelayTimed == InitRelayTimed /\ [][NextRelayTimed]_vars

(***************************************************************************)
(* Queued arrivals: requests for one channel of the stream registry reach  *)
(* the workers at any time and their handlers park at                      *)
(* STREAM_PROCESSES.lock().await until the lock is free.                   *)
(***************************************************************************)
QueuedChannels == {1}
QueuedRequests == {r \in Requests("livestream") : r.id \in QueuedChannels}

\* A request reaches worker t; its handler has got the channel name and
\* stands before the registry lock.
LockAwait(t) ==
    /\ Garbage = {}
    /\ queued
    /\ pc[t] = "idle"
    /\ \E r \in QueuedRequests :
         /\ get_channel_name(r.id) = "Ok"
         /\ pc' = [pc EXCEPT ![t] = "lock"]
         /\ req' = [req EXCEPT ![t] = r]
    /\ response' = NoResponse
    /\ UNCHANGED <<setupVars, drain, ret, regVars, regLock, procVars, copyTask,
                   held, kq, kres, err, snap, sent, waited>>

NextQueued ==
    \/ Forget
    \/ \E t \in Tasks :
         \/ LockAwait(t)
         \/ LivestreamStart(t)
         \/ StartInsert(t)
         \/ LivestreamStop(t)
         \/ KillSignal(t)
         \/ KillWait(t)
         \/ is_ffmpeg_livestream_active(t)
         \/ StatusPoll(t)
    \/ \E p \in Pids :
         \/ ProcExit(p)
         \/ CopyEnds(p)
         \/ CopyLockStreamlink(p)
         \/ CopyLockFfmpeg(p)
         \/ CopyWaitStreamlink(p)
         \/ CopyKillFfmpeg(p)
         \/ CopyWaitFfmpeg(p)

InitQueued ==
    /\ world = "livestream"
    /\ queued = TRUE
    /\ environment = Unpinned
    /\ drain = Unobserved
    /\ Boot

\* The wait() of a kill().await returns because the child has exited.
KillWaitExit(t) == KillWait(t) /\ childState[Head(kq[t])] # "alive"
CopyWaitStreamlinkExit(p) == CopyWaitStreamlink(p) /\ childState[p] # "alive"
CopyWaitFfmpegExit(p) ==
    CopyWaitFfmpeg(p) /\ childState[copyTask[p].ffmpeg] # "alive"
\* A child that was sent SIGKILL exits.
KilledExit(p) == ProcExit(p) /\ signalled[p]

(***************************************************************************)
(* Scheduling.  The tokio runtime polls every task that can make progress  *)
(* (weak fairness of each step); tokio's Mutex is fair (first in, first    *)
(* out), so a handler parked at the registry lock gets it if the lock is   *)
(* freed again and again (strong fairness of the first step of a handler); *)
(* the operating system ends a process that was sent SIGKILL.  A wait()    *)
(* is not assumed to fail, and a process that was not signalled is not     *)
(* assumed to exit.                                                        *)
(***************************************************************************)
FairQueued ==
    /\ WF_vars(Forget)
    /\ \A t \in Tasks :
          /\ SF_vars(LivestreamStart(t))
          /\ SF_vars(LivestreamStop(t))
          /\ SF_vars(is_ffmpeg_livestream_active(t))
          /\ WF_vars(StartInsert(t))
          /\ WF_vars(KillSignal(t))
          /\ WF_vars(KillWaitExit(t))
          /\ WF_vars(StatusPoll(t))
    /\ \A p \in Pids :
          /\ WF_vars(KilledExit(p))
          /\ WF_vars(CopyLockStreamlink(p))
          /\ WF_vars(CopyLockFfmpeg(p))
          /\ WF_vars(CopyWaitStreamlinkExit(p))
          /\ WF_vars(CopyKillFfmpeg(p))
          /\ WF_vars(CopyWaitFfmpegExit(p))

SpecQueued == InitQueued /\ [][NextQueued]_vars /\ FairQueued

(***************************************************************************)
(* The resolver alone: the ingest configuration of the channel is drawn    *)
(* from ResolverInputs and extract_rtmp_stream_details is applied to it.   *)
(***************************************************************************)
Target ==
    <<":", "1", "9", "3", "5", "/", "l", "i", "v", "e", "/", "s", "t", "r",
      "e", "a", "m", "?", "k", "e", "y", "=", "a", "b", "c">>

\* What stands before and after the target in an input_param.
Prefixes ==
    { <<>>,
      <<"-", "i", " ", "r", "t", "m", "p", ":", "/", "/", "h">>,
      <<"-", "l", "i", "s", "t", "e", "n", " ", "1", " ", "h">>,
      <<":", "8", "0", " ">>,
      <<"a", ":">> }
Suffixes ==
    { <<>>, <<" ", "-", "x">>, <<"\t", ":", "8", "0">>, <<"d">>, <<"/", "9">> }

\* Ports around the limits of the pattern and of u16.
PortSamples ==
    (0..99) \cup {999, 1000, 1935, 9999, 10000, 65534, 65535, 65536, 65540,
                  70000, 99999}

\* Inputs without a colon followed by a digit.
Unmatched ==
    { <<>>, <<":">>, <<"1", "9", "3", "5">>, <<"a", ":", "b">>,
      <<":", " ", "1">>, <<"1", ":">>, <<"r", ":", "/", "1">>,
      <<":", ":", "x">> }

\* Inputs whose digits are not the plain decimal form of a port: leading
\* zeros, a sixth digit.
OddDigits ==
    { <<":", "0", "0", "0", "8", "0">>,
      <<":", "0", "0">>,
      <<":", "6", "5", "5", "3", "5", "9">>,
      <<":", "6", "5", "5", "3", "6", "0">>,
      <<":", "0", "6", "5", "5", "3", "6">>,
      <<":", "9", "9", "9", "9", "9", "9", "/", "k">>,
      <<":", "7", "0", "0", "0", "0", " ", ":", "8", "0">> }

ResolverInputs ==
    {pre \o Target \o suf : pre \in Prefixes, suf \in Suffixes}
    \cup {<<":">> \o FormatNat(v) : v \in PortSamples}
    \cup {<<"h", ":">> \o FormatNat(v) \o <<"/", "k">> : v \in PortSamples}
    \cup Unmatched \cup OddDigits

ResolverEnvironments ==
    {[Unpinned EXCEPT !.pinned = TRUE, !.input_param = s] : s \in ResolverInputs}

\* extract_rtmp_stream_details(id, controllers) on the configuration of the
\* run.
Resolve ==
    /\ environment.pinned
    /\ ret = NoRet
    /\ ret' = [fn |-> "extract_rtmp_stream_details",
               value |-> extract_rtmp_stream_details(environment.input_param)]
    /\ response' = NoResponse
    /\ UNCHANGED <<setupVars, drain, regVars, regLock, procVars, copyTask, taskVars,
                   waited>>

InitResolver ==
    /\ world = "ytbot"
    /\ queued = FALSE
    /\ environment \in ResolverEnvironments
    /\ drain = Unobserved
    /\ Boot

NextResolver == Resolve

SpecResolver == InitResolver /\ [][NextResolver]_vars

(***************************************************************************)
(* The locators and the starts that use them, in an environment that is    *)
(* state: the override variables, the files on disk and the home directory *)
(* are what they are until something outside changes one of them.          *)
(***************************************************************************)
LocatorPaths ==
    {"/opt/tool", "/usr/local/bin/ytbot.sh", "/usr/local/bin/ytbot.py",
     "/usr/bin/ffmpeg", "/usr/local/bin/ffmpeg",
     "/root/livebot/venv/bin/streamlink"}

\* The three override variables are set to the same path or all unset.
LocatorEnvironments ==
    { [pinned |-> TRUE, YTBOT_PATH |-> o, FFMPEG_PATH |-> o,
       STREAMLINK_PATH |-> o, exists |-> x, home |-> h,
       input_param |-> Target] :
        o \in EnvSamples, x \in SUBSET LocatorPaths, h \in HomeSamples }

\* The environments in which starts are followed: no tool anywhere; the
\* tools at the override only; the tools at fallback paths; streamlink
\* alone; each with the overrides set and unset.
FlowFiles ==
    { {}, {"/opt/tool"},
      {"/usr/local/bin/ytbot.py", "/usr/local/bin/ffmpeg",
       "/root/livebot/venv/bin/streamlink"},
      {"/root/livebot/venv/bin/streamlink"} }
FlowEnvironments ==
    {e \in LocatorEnvironments : e.exists \in FlowFiles /\ e.home = "/root"}

\* Runs that serve no request ("none") go through every environment.
EnvsOf(w) == IF w = "none" THEN LocatorEnvironments ELSE FlowEnvironments

\* Something outside the program creates or deletes files, sets or unsets
\* the overrides, or changes the home directory.
EnvChange ==
    /\ environment.pinned
    /\ \E e \in EnvsOf(world) \ {environment} : environment' = e
    /\ ret' = NoRet
    /\ response' = NoResponse
    /\ UNCHANGED <<world, queued, ctl, drain, regVars, regLock, procVars, copyTask,
                   taskVars, waited>>

\* A locator is applied to the environment; its Option<String> is kept.
Locate(fn, path) ==
    /\ environment.pinned
    /\ ret = NoRet
    /\ ret' = [fn |-> fn, value |-> <<path>>]
    /\ response' = NoResponse
    /\ UNCHANGED <<setupVars, drain, regVars, regLock, procVars, copyTask, taskVars,
                   waited>>

LocateYtbot ==
    Locate("get_ytbot_path",
           get_ytbot_path(environment.YTBOT_PATH, environment.exists))
LocateFfmpeg ==
    Locate("get_ffmpeg_path",
           get_ffmpeg_path(environment.FFMPEG_PATH, environment.exists))
LocateStreamlink ==
    Locate("get_streamlink_path",
           get_streamlink_path(environment.STREAMLINK_PATH, environment.exists,
                               environment.home))

InitLocator ==
    /\ world \in {"none", "ytbot", "livestream"}
    /\ queued = FALSE
    /\ environment \in EnvsOf(world)
    /\ drain = Unobserved
    /\ Boot

NextLocator ==
    \/ Forget
    \/ EnvChange
    \/ LocateYtbot
    \/ LocateFfmpeg
    \/ LocateStreamlink
    \/ \E t \in Tasks :
         \/ YtbotStart(t)
         \/ LivestreamStart(t)
         \/ StartInsert(t)
         \/ KillWait(t)
    \/ \E p \in Pids : ProcExit(p)

SpecLocator == InitLocator /\ [][NextLocator]_vars

-----------------------------------------------------------------------------
(***************************************************************************)
(* Properties.  A step that answers a request records the request and its  *)
(* response in `response`; every other step clears it.                     *)
(***************************************************************************)
StartReqs(k, c) ==
    {r \in Requests(k) : r.action = "start" /\ r.id = c}
StopReq(k, c) == [kind |-> k, action |-> "stop", id |-> c, url |-> "none"]
StatusReq(k, c) == [kind |-> k, action |-> "status", id |-> c, url |-> "none"]

\* The registry of kind k after the step.
RegistryAfter(k) == IF k = "ytbot" THEN YTBOT_PROCESSES' ELSE STREAM_PROCESSES'

\* The step answers request r with x.
Answers(r, x) == response' = [req |-> r, resp |-> x]

\* The step is the first of the handler of r: it answers at once, or the
\* handler suspends holding the registry lock.
Begins(r) ==
    \/ pc' = pc /\ response'.req = r
    \/ \E t \in Tasks : pc[t] = "idle" /\ pc'[t] # "idle" /\ req'[t] = r

\* The processes of entry e that run.
Live(e) == {e[i] : i \in {j \in 1..Len(e) : childState[e[j]] = "alive"}}

C2_StartAtomic ==
    \A t \in Tasks : pc[t] # "idle" =>
        /\ regLock[req[t].kind] = t
        /\ \A u \in Tasks \ {t} : pc[u] # "idle" => req[u].kind # req[t].kind
        /\ pc[t] = "insert" =>
              /\ Registry(req[t].kind) = snap[t]
              /\ snap[t][req[t].id] = <<>>
              /\ \A c \in ChannelIds :
                    \A i \in 1..Len(held[t]) : \A j \in 1..Len(snap[t][c]) :
                       held[t][i] # snap[t][c][j]

\* A start stands between its spawn and its insert while another channel of
\* the same registry has an entry.
C2_Witness ==
    \E t \in Tasks :
        /\ pc[t] = "insert"
        /\ \E c \in ChannelIds : Registry(req[t].kind)[c] # <<>>

(***************************************************************************)
(* C3.  A stop for a channel that has no entry answers NotRunning at once, *)
(* sends no signal, changes no process and leaves both registries exactly  *)
(* as they were; and NotRunning is answered in no other case.              *)
(***************************************************************************)
C3_StopWithoutEntry ==
    [][/\ \A k \in Kinds : \A c \in ChannelIds :
            (Registry(k)[c] = <<>> /\ Begins(StopReq(k, c))) =>
                /\ Answers(StopReq(k, c), "NotRunning")
                /\ UNCHANGED <<regVars, procVars, copyTask>>
       /\ response'.resp = "NotRunning" =>
            /\ response'.req.action = "stop"
            /\ Registry(response'.req.kind)[response'.req.id] = <<>>
            /\ UNCHANGED <<regVars, procVars>>]_vars

\* A stop was answered NotRunning while another channel has a running entry.
C3_Witness ==
    /\ response.resp = "NotRunning"
    /\ \E c \in ChannelIds :
          LET e == Registry(response.req.kind)[c]
          IN  e # <<>> /\ Live(e) # {}


\* The step is the liveness poll of the status handler of r, made on the
\* entry e that the handler took out of the registry: at once, or after the
\* handler waited for the lock of the polled handle.
PollsEntry(r, e) ==
    \/ /\ pc' = pc /\ response'.req = r
       /\ Registry(r.kind)[r.id] = e
    \/ \E t \in Tasks :
          pc[t] = "poll" /\ pc'[t] = "idle" /\ req[t] = r /\ held[t] = e

\* The entries a registry of kind k can hold.
Entries(k) ==
    IF k = "ytbot" THEN {<<p>> : p \in Pids}
    ELSE {<<p, q>> : p \in Pids, q \in Pids}

(***************************************************************************)
(* C4.  When a process of a registered entry has exited, the next status   *)
(* call for the channel reports Inactive and leaves the entry removed, so  *)
(* that a start right after it is not rejected.                            *)
(***************************************************************************)
C4_ExitedReportsInactive ==
    [][\A k \in Kinds : \A c \in ChannelIds : \A e \in Entries(k) :
          (PollsEntry(StatusReq(k, c), e) /\ Cardinality(Live(e)) < Len(e)) =>
              /\ Answers(StatusReq(k, c), "Inactive")
              /\ RegistryAfter(k)[c] = <<>>]_vars

(***************************************************************************)
(* C5.  After a status call the registry reflects the live processes: the  *)
(* entry is present after the call exactly if the call reported Active,    *)
(* it reported Active exactly if an entry existed whose processes ran at   *)
(* the poll, and an entry that is present after the call has no dead       *)
(* process.                                                                *)
(***************************************************************************)
C5_StatusAccurate ==
    [][\A k \in Kinds : \A c \in ChannelIds :
          /\ \A e \in Entries(k) :
                PollsEntry(StatusReq(k, c), e) =>
                   /\ (RegistryAfter(k)[c] # <<>>) <=> (response'.resp = "Active")
                   /\ (response'.resp = "Active") <=> (Cardinality(Live(e)) = Len(e))
                   /\ RegistryAfter(k)[c] \in {<<>>, e}
          /\ (PollsEntry(StatusReq(k, c), <<>>)) =>
                /\ response'.resp = "Inactive"
                /\ RegistryAfter(k)[c] = <<>>]_vars

(***************************************************************************)
(* C6.  A stop for a channel that has an entry takes the entry out in its  *)
(* first step; nothing puts it back while the stop runs, and it is absent  *)
(* when the stop returns, whatever the kills came to (Stopped, KillError,  *)
(* KillTimeout).  A start that finds no entry is not answered              *)
(* AlreadyRunning.                                                         *)
(***************************************************************************)
C6_StopRemovesEntry ==
    [][/\ \A k \in Kinds : \A c \in ChannelIds :
            (Registry(k)[c] # <<>> /\ Begins(StopReq(k, c))) =>
                RegistryAfter(k)[c] = <<>>
       /\ \A t \in Tasks :
            (pc[t] \in {"kill", "killWait"} /\ req[t].action = "stop") =>
                /\ Registry(req[t].kind)[req[t].id] = <<>>
                /\ RegistryAfter(req[t].kind)[req[t].id] = <<>>
                /\ pc'[t] = "idle" =>
                      /\ response'.req = req[t]
                      /\ response'.resp \in {"Stopped", "KillError", "KillTimeout"}
       /\ response'.resp \in {"Stopped", "KillError", "KillTimeout"} =>
            RegistryAfter(response'.req.kind)[response'.req.id] = <<>>
       /\ \A k \in Kinds : \A c \in ChannelIds : \A r \in StartReqs(k, c) :
            (Registry(k)[c] = <<>> /\ Begins(r)) =>
                response'.resp # "AlreadyRunning"]_vars

\* A stop came back with a kill error and the entry of its channel is gone.
C6_Witness ==
    /\ response.req.action = "stop"
    /\ response.resp = "KillError"
    /\ Registry(response.req.kind)[response.req.id] = <<>>

(***************************************************************************)
(* C7.  A stop bounds its wait for the exit of a process: it signals each  *)
(* handle once, and it is not still blocked on a handle when the timeout   *)
(* (TimeoutSecs) has passed since the signal.                              *)
(***************************************************************************)
C7_StopWaitBounded ==
    \A t \in Tasks :
        (pc[t] = "killWait" /\ req[t].action = "stop") =>
            /\ waited[t] <= TimeoutSecs
            /\ \A i \in 1..Len(sent[t]) : \A j \in 1..Len(sent[t]) :
                  sent[t][i] = sent[t][j] => i = j


(***************************************************************************)
(* C8.  Relay teardown.  When ffmpeg of a pair has died while the relay    *)
(* was copying, the relay task terminates streamlink within the timeout:   *)
(* once it has sent the signal it is not still waiting for the exit after  *)
(* TimeoutSecs, and when its teardown is over streamlink has exited or has *)
(* been sent SIGKILL.  From the death of ffmpeg on the registry does not   *)
(* report the pair as running: a status poll of the pair does not answer   *)
(* Active and leaves the entry removed.                                    *)
(***************************************************************************)
C8_RelayTeardown ==
    [][/\ \A p \in Pids :
            /\ copyTask'[p].pc = "waitStreamlink" =>
                  waited'[CopyHolder(p)] <= TimeoutSecs
            /\ (copyTask[p].pc \in {"killFfmpeg", "waitFfmpeg"}
                  /\ copyTask'[p].pc = "done") =>
                  (childState'[p] # "alive" \/ signalled'[p])
       /\ \A c \in ChannelIds : \A e \in Entries("livestream") :
            (PollsEntry(StatusReq("livestream", c), e)
               /\ childState[e[2]] # "alive") =>
                  /\ response'.resp # "Active"
                  /\ STREAM_PROCESSES'[c] = <<>>]_vars

\* The children the step spawns.
Spawned == {p \in Pids : childState[p] = "unborn" /\ childState'[p] = "alive"}
\* The members of the tuple e.
Range(e) == {e[i] : i \in 1..Len(e)}

StartErrors ==
    {"AlreadyRunning", "ExecutableNotFound", "NoValidTarget", "SpawnFailed",
     "PipeAcquisitionFailed", "UrlMissing", "UrlInvalid"}

(***************************************************************************)
(* C9.  A livestream start that fails after streamlink was spawned kills   *)
(* every process it spawned before it returns the error, and records no    *)
(* entry: a start never returns in the step in which it spawned; a failed  *)
(* start that has spawned owns exactly the children it spawned and is on   *)
(* the way to kill each of them; and when it returns, each of them has     *)
(* been reaped or, if the wait of its kill failed, has been sent SIGKILL,  *)
(* and the channel has no entry.                                           *)
(***************************************************************************)
C9_FailedStartKillsSpawned ==
    [][\A c \in ChannelIds : \A r \in StartReqs("livestream", c) :
          /\ (Begins(r) /\ pc' = pc) => Spawned = {}
          /\ \A t \in Tasks :
                /\ (pc[t] = "idle" /\ pc'[t] # "idle" /\ req'[t] = r) =>
                      /\ Range(held'[t]) = Spawned
                      /\ pc'[t] # "insert" =>
                            /\ Range(kq'[t]) = Spawned
                            /\ Range(sent'[t]) = {Head(kq'[t])}
                /\ (pc[t] \in {"kill", "killWait"} /\ req[t] = r) =>
                      /\ STREAM_PROCESSES'[c] = <<>>
                      /\ pc'[t] = "idle" =>
                            /\ response'.req = r
                            /\ response'.resp \in
                                  {"PipeAcquisitionFailed", "NoValidTarget",
                                   "SpawnFailed"}
                            /\ \A p \in Range(held[t]) :
                                  \/ childState'[p] = "reaped"
                                  \/ p \in Range(sent[t]) /\ signalled'[p]
                                  \/ p \in Range(sent[t]) /\ childState'[p] = "exited"]_vars

\* A livestream start failed after both processes were spawned, and when it
\* returns both have been reaped and the registry has no entry.
C9_Witness ==
    /\ response.req.kind = "livestream" /\ response.req.action = "start"
    /\ response.resp = "PipeAcquisitionFailed"
    /\ Cardinality({p \in Pids : childState[p] = "reaped"}) = 2
    /\ \A p \in Pids : childState[p] # "alive"
    /\ STREAM_PROCESSES = EmptyMap

(***************************************************************************)
(* C10.  A start that fails inserts nothing: in the step in which a start  *)
(* returns an error (AlreadyRunning, ExecutableNotFound, NoValidTarget,    *)
(* SpawnFailed, PipeAcquisitionFailed, a missing or invalid url) the       *)
(* registries do not change and the registry of the start is what it was   *)
(* when the start took the lock; a start that does not answer Started      *)
(* answers one of these errors.                                            *)
(***************************************************************************)
C10_FailedStartInsertsNothing ==
    [][(response'.req.action = "start" /\ response'.resp # "Started") =>
          /\ response'.resp \in StartErrors \cup {"ChannelLookupFailed"}
          /\ UNCHANGED regVars
          /\ \A t \in Tasks :
                (pc[t] # "idle" /\ pc'[t] = "idle") =>
                    Registry(response'.req.kind) = snap[t]]_vars

\* A start failed after its process was spawned, and the entry of another
\* channel is in the registry as before.
C10_Witness ==
    /\ response.req.action = "start"
    /\ response.resp = "PipeAcquisitionFailed"
    /\ Registry(response.req.kind)[response.req.id] = <<>>
    /\ \E c \in ChannelIds : Registry(response.req.kind)[c] # <<>>


(***************************************************************************)
(* C11.  A dead entry does not block a start: a start for a channel whose  *)
(* entry holds a process that has exited is not answered AlreadyRunning.   *)
(***************************************************************************)
C11_DeadEntryDoesNotBlock ==
    [][\A k \in Kinds : \A c \in ChannelIds : \A r \in StartReqs(k, c) :
          (/\ Begins(r)
           /\ Registry(k)[c] # <<>>
           /\ Cardinality(Live(Registry(k)[c])) < Len(Registry(k)[c])) =>
              response'.resp # "AlreadyRunning"]_vars

(***************************************************************************)
(* C12.  A pair is one unit: a status poll of a pair of which a member     *)
(* has exited (streamlink or ffmpeg) answers Inactive and leaves the entry *)
(* removed, also when streamlink alone has exited and ffmpeg runs.         *)
(***************************************************************************)
C12_PairIsOneUnit ==
    [][\A c \in ChannelIds : \A e \in Entries("livestream") :
          (/\ PollsEntry(StatusReq("livestream", c), e)
           /\ \E i \in 1..2 : childState[e[i]] # "alive") =>
              /\ Answers(StatusReq("livestream", c), "Inactive")
              /\ STREAM_PROCESSES'[c] = <<>>]_vars

(***************************************************************************)
(* C13.  When the relay task of a pair ends, after an error of the copy or *)
(* after the end of file of the output of streamlink, both processes of    *)
(* the pair have been terminated: each has exited or has been sent         *)
(* SIGKILL.                                                                *)
(***************************************************************************)
C13_RelayEndTerminatesBoth ==
    [][\A p \in Pids :
          (copyTask[p].pc \notin {"none", "done"} /\ copyTask'[p].pc = "done") =>
              \A q \in {p, copyTask[p].ffmpeg} :
                  childState'[q] # "alive" \/ signalled'[q]]_vars

(***************************************************************************)
(* C14.  No orphaned children: when no handler is under way and no relay   *)
(* task is in its teardown, every running process that has not been sent   *)
(* SIGKILL belongs to an entry of a registry.                              *)
(***************************************************************************)
C14_NoOrphans ==
    (/\ \A t \in Tasks : pc[t] = "idle"
     /\ \A p \in Pids : copyTask[p].pc \in {"none", "copying", "done"}) =>
        \A p \in Pids :
            (childState[p] = "alive" /\ ~signalled[p]) =>
                \E k \in Kinds : \E c \in ChannelIds : p \in Range(Registry(k)[c])

(***************************************************************************)
(* C16.  Lifecycle of an entry.  An entry appears only in the step in      *)
(* which a start for its channel answers Started (or in which a status     *)
(* call puts back the very entry it took out for its poll); an entry       *)
(* disappears only in the first step of a stop or of a status call for its *)
(* channel; an entry is never replaced by another; and a status call       *)
(* leaves the entry it polled removed only if it answers Inactive for a    *)
(* process that has exited.  No other step (a status call whose poll       *)
(* failed, the relay task) changes a registry.                             *)
(***************************************************************************)
C16_EntryLifecycle ==
    [][\A k \in Kinds : \A c \in ChannelIds :
          LET old == Registry(k)[c]
              new == RegistryAfter(k)[c]
          IN
          /\ (old = <<>> /\ new # <<>>) =>
                \/ \E r \in StartReqs(k, c) : Answers(r, "Started")
                \/ \E t \in Tasks :
                      /\ pc[t] = "poll" /\ pc'[t] = "idle"
                      /\ req[t] = StatusReq(k, c)
                      /\ new = held[t] /\ snap[t][c] = held[t]
          /\ (old # <<>> /\ new = <<>>) =>
                Begins(StopReq(k, c)) \/ Begins(StatusReq(k, c))
          /\ (old # <<>> /\ new # <<>>) => old = new
          /\ \A e \in Entries(k) :
                (PollsEntry(StatusReq(k, c), e) /\ new = <<>>) =>
                    /\ response'.resp = "Inactive"
                    /\ Cardinality(Live(e)) < Len(e)]_vars

\* The handler of worker t is between its first access to the registry and
\* its return.
InProgress(t) == pc[t] \notin {"idle", "lock"}
\* The relay task of the pair of streamlink p is in its teardown.
TearingDown(p) ==
    copyTask[p].pc \in {"lockStreamlink", "lockFfmpeg", "waitStreamlink",
                        "killFfmpeg", "waitFfmpeg"}

C17_SameChannelSerialized ==
    /\ \A t \in Tasks : \A u \in Tasks \ {t} :
          (InProgress(t) /\ InProgress(u)) =>
              ~(req[t].kind = req[u].kind /\ req[t].id = req[u].id)
    /\ \A t \in Tasks : InProgress(t) => regLock[req[t].kind] = t
    /\ \A p \in Pids : childLock[p] \in Tasks => InProgress(childLock[p])

\* A stop is killing the pair of a channel while a start for the same
\* channel is parked at the registry lock.
C17_Witness ==
    \E t \in Tasks : \E u \in Tasks :
        /\ pc[t] = "killWait" /\ req[t].action = "stop"
        /\ pc[u] = "lock" /\ req[u].action = "start"
        /\ req[u].kind = req[t].kind /\ req[u].id = req[t].id

\* The resolver has been applied to the ingest configuration of the run.
Resolved == ret.fn = "extract_rtmp_stream_details"
\* Text s holds a colon followed by a digit.
ColonDigit(s) ==
    \E i \in 1..(Len(s) - 1) :
        s[i] = ":" /\ s[i + 1] \in {"0", "1", "2", "3", "4", "5", "6", "7", "8", "9"}

(***************************************************************************)
(* C18.  Target resolution of an ingest string in which the target         *)
(* :1935/live/stream?key=abc  is the first colon followed by a digit and   *)
(* ends the string or is followed by white space yields exactly that       *)
(* target: port 1935 and the stream key verbatim.  An ingest string with   *)
(* no colon followed by a digit yields NoValidTarget.                      *)
(***************************************************************************)
C18_TargetVerbatim ==
    Resolved =>
        /\ \A pre \in Prefixes : \A suf \in Suffixes :
              (/\ environment.input_param = pre \o Target \o suf
               /\ ~ColonDigit(pre \o <<":">>)
               /\ suf = <<>> \/ suf[1] \in {" ", "\t", "\n"}) =>
                  ret.value = Target
        /\ ~ColonDigit(environment.input_param) => ret.value = NoValidTarget

\* The resolver gave the target for a configuration of the usual form
\* (options, a url with a host, the target, more options).
C18_Witness ==
    /\ Resolved
    /\ environment.input_param =
          <<"-", "i", " ", "r", "t", "m", "p", ":", "/", "/", "h">> \o Target
             \o <<" ", "-", "x">>
    /\ ret.value = Target

\* The statement for every ingest string that contains the target.
C18_AnyStringContaining ==
    Resolved =>
        /\ \A pre \in Prefixes : \A suf \in Suffixes :
              environment.input_param = pre \o Target \o suf =>
                  ret.value = Target
        /\ ~ColonDigit(environment.input_param) => ret.value = NoValidTarget

\* The value of a decimal digit and of a run of at most five of them.
DigitOf(ch) ==
    CASE ch = "0" -> 0 [] ch = "1" -> 1 [] ch = "2" -> 2 [] ch = "3" -> 3
      [] ch = "4" -> 4 [] ch = "5" -> 5 [] ch = "6" -> 6 [] ch = "7" -> 7
      [] ch = "8" -> 8 [] ch = "9" -> 9
IsDecimal(ds) == \A i \in 1..Len(ds) : ds[i] \in {"0", "1", "2", "3", "4", "5", "6", "7", "8", "9"}
ValueOf(ds) ==
    LET n == Len(ds)
        d(k) == IF k <= n THEN DigitOf(ds[n + 1 - k]) ELSE 0
    IN  d(1) + 10 * d(2) + 100 * d(3) + 1000 * d(4) + 10000 * d(5)

(***************************************************************************)
(* C19.  The digits captured after the first colon that a digit follows    *)
(* (the longest run of digits there, five at most) are a port exactly if   *)
(* their value is at most 65535.  If it is more the resolver answers       *)
(* NoValidTarget; if not it answers the colon, that port in decimal and    *)
(* the key (the run of non-white-space after the captured digits); a port  *)
(* that comes back is in 0..65535.                                         *)
(***************************************************************************)
C19_PortIsU16 ==
    (Resolved /\ ColonDigit(environment.input_param)) =>
        LET s == environment.input_param
            i == CHOOSE a \in 1..Len(s) :
                    /\ ColonDigit(SubSeq(s, a, a + 1))
                    /\ ~ColonDigit(SubSeq(s, 1, a))
            n == CHOOSE b \in 1..5 :
                    /\ i + b <= Len(s)
                    /\ IsDecimal(SubSeq(s, i + 1, i + b))
                    /\ b = 5 \/ i + b = Len(s) \/ ~IsDecimal(<<s[i + b + 1]>>)
            k == CHOOSE c \in 0..Len(s) :
                    /\ i + n + c <= Len(s)
                    /\ \A x \in (i + n + 1)..(i + n + c) :
                          s[x] \notin {" ", "\t", "\n"}
                    /\ i + n + c = Len(s) \/ s[i + n + c + 1] \in {" ", "\t", "\n"}
            v == ValueOf(SubSeq(s, i + 1, i + n))
            out == ret.value
        IN  /\ v > 65535 => out = NoValidTarget
            /\ v <= 65535 =>
                  /\ out # NoValidTarget
                  /\ out[1] = ":"
                  /\ Len(out) - k \in 2..6
                  /\ IsDecimal(SubSeq(out, 2, Len(out) - k))
                  /\ ValueOf(SubSeq(out, 2, Len(out) - k)) = v
                  /\ SubSeq(out, Len(out) - k + 1, Len(out))
                        = SubSeq(s, i + n + 1, i + n + k)
            /\ out # NoValidTarget => v \in 0..65535

\* The resolver refused the first value that is no 16-bit port.
C19_Witness ==
    /\ Resolved
    /\ environment.input_param = <<":", "6", "5", "5", "3", "6">>
    /\ ret.value = NoValidTarget


\* The candidates of a locator in the current environment, in the order of
\* the search: the override if it is set, then the fixed paths.
Candidates(fn) ==
    IF fn = "get_ytbot_path"
    THEN (IF environment.YTBOT_PATH # NoPath
          THEN <<environment.YTBOT_PATH>> ELSE <<>>)
         \o <<"/usr/local/bin/ytbot.sh", "/usr/local/bin/ytbot.py">>
    ELSE IF fn = "get_ffmpeg_path"
    THEN (IF environment.FFMPEG_PATH # NoPath
          THEN <<environment.FFMPEG_PATH>> ELSE <<>>)
         \o <<"/usr/bin/ffmpeg", "/usr/local/bin/ffmpeg">>
    ELSE (IF environment.STREAMLINK_PATH # NoPath
          THEN <<environment.STREAMLINK_PATH>> ELSE <<>>)
         \o (IF environment.home = "/root"
             THEN <<"/root/livebot/venv/bin/streamlink">> ELSE <<>>)

\* The first candidate that is on disk, NoPath when none is.
FirstOnDisk(fn) ==
    LET cs == Candidates(fn)
        on == {i \in 1..Len(cs) : cs[i] \in environment.exists}
    IN IF on = {} THEN NoPath
       ELSE cs[CHOOSE i \in on : \A j \in on : i <= j]

\* What a start of kind k looks for.
LocatorsOf(k) == IF k = "ytbot" THEN {"get_ytbot_path"}
                 ELSE {"get_streamlink_path", "get_ffmpeg_path"}

(***************************************************************************)
(* C20.  A locator returns the first of its candidates that is on disk:    *)
(* the override when it is set and exists, else the fixed paths in their   *)
(* order (a set but missing override falls through to them), and not-found *)
(* exactly when no candidate is on disk.  A start that gets past the       *)
(* AlreadyRunning test and the url checks answers ExecutableNotFound       *)
(* exactly when one of its locators finds nothing, and then it spawns      *)
(* nothing, signals nothing, changes no registry and leaves every other    *)
(* request where it was.                                                   *)
(***************************************************************************)
C20_FirstExistingOrNotFound ==
    [][/\ (ret' # ret /\ ret'.fn \in UNION {LocatorsOf(k) : k \in Kinds}) =>
             /\ ret'.value = <<FirstOnDisk(ret'.fn)>>
             /\ UNCHANGED <<regVars, procVars, copyTask, taskVars>>
       /\ \A k \in Kinds : \A c \in ChannelIds : \A r \in StartReqs(k, c) :
            (/\ Begins(r)
             /\ Registry(k)[c] = <<>>
             /\ r.url \notin (IF k = "ytbot" THEN {} ELSE {"none", "bad"})) =>
                /\ Answers(r, "ExecutableNotFound") <=>
                       (\E fn \in LocatorsOf(k) : FirstOnDisk(fn) = NoPath)
                /\ Answers(r, "ExecutableNotFound") =>
                       UNCHANGED <<regVars, regLock, procVars, copyTask,
                                   taskVars>>
      ]_vars

\* A livestream start was refused for want of ffmpeg while another channel
\* streams, after the streamlink locator fell through a set but missing
\* override to the path under the home directory.
C20_Witness ==
    /\ response.resp = "ExecutableNotFound"
    /\ response.req.kind = "livestream"
    /\ \E c \in ChannelIds \ {response.req.id} : STREAM_PROCESSES[c] # <<>>
    /\ environment.STREAMLINK_PATH = "/opt/tool"
    /\ "/opt/tool" \notin environment.exists
    /\ ret = [fn |-> "get_streamlink_path",
              value |-> <<"/root/livebot/venv/bin/streamlink">>]


-----------------------------------------------------------------------------
(***************************************************************************)
(* The body of a response: HttpResponse::...().json(format!(text, args)).  *)
(* A body is the literal text (accents dropped) and the arguments that     *)
(* format! puts into it; the only argument the handlers ever format into a *)
(* body is channel_name.  Where one response of the model stands for more  *)
(* than one return statement, json gives the body of each.                 *)
(***************************************************************************)
\* Ok(ch.name.clone()) of get_channel_name
channel_name(c) == <<"name", c>>
Body(text, args) == [text |-> text, args |-> args]

json(r, x) ==
    LET n == channel_name(r.id) IN
    IF x = "ChannelLookupFailed"
    THEN {Body("Erro ao acessar o canal", <<>>)}
    ELSE IF r.kind = "ytbot"
    THEN IF x = "AlreadyRunning"
         THEN {Body("O ytbot ja esta em execucao para o canal {}", <<n>>)}
         ELSE IF x = "ExecutableNotFound"
         THEN {Body("Executavel do ytbot nao encontrado", <<>>)}
         ELSE IF x = "NoValidTarget"
         THEN {Body("Erro ao extrair detalhes RTMP para o canal {}", <<n>>)}
         ELSE IF x = "SpawnFailed"
         THEN {Body("Erro ao iniciar o ytbot para o canal {}", <<n>>)}
         ELSE IF x = "PipeAcquisitionFailed"
         THEN {Body("Falha ao iniciar o ytbot para o canal {}", <<n>>)}
         ELSE IF x = "Started"
         THEN {Body("ytbot iniciado com sucesso para o canal {}", <<n>>)}
         ELSE IF x = "Stopped"
         THEN {Body("ytbot interrompido com sucesso para o canal {}", <<n>>)}
         ELSE IF x \in {"KillError", "KillTimeout"}
         THEN {Body("Erro ao interromper o ytbot para o canal {}", <<n>>)}
         ELSE IF x = "NotRunning"
         THEN {Body("Nenhum processo do ytbot em execucao para o canal {}",
                    <<n>>)}
         ELSE IF x = "StatusError"
         THEN {Body("Erro ao verificar o status do ytbot para o canal {}",
                    <<n>>)}
         ELSE {Body(x, <<>>)}   \* ServiceStatusResponse {status}
    ELSE IF x = "AlreadyRunning"
         THEN {Body("Stream ja esta em execucao para o canal {}", <<n>>)}
         ELSE IF x = "UrlMissing"
         THEN {Body("URL nao fornecida", <<>>)}
         ELSE IF x = "UrlInvalid"
         THEN {Body("URL invalida", <<>>)}
         ELSE IF x = "ExecutableNotFound"
         THEN {Body("Executavel do streamlink nao encontrado", <<>>),
               Body("Executavel do ffmpeg nao encontrado", <<>>)}
         ELSE IF x \in {"SpawnFailed", "PipeAcquisitionFailed"}
         THEN {Body("Erro ao iniciar o streaming", <<>>)}
         ELSE IF x = "NoValidTarget"
         THEN {Body("Erro ao extrair detalhes RTMP", <<>>)}
         ELSE IF x = "Started"
         THEN {Body("Stream iniciado para canal {}", <<n>>)}
         ELSE IF x = "Stopped"
         THEN {Body("Stream Encerrado para o canal {}", <<n>>)}
         ELSE IF x \in {"KillError", "KillTimeout"}
         THEN {Body("Erro ao parar streaming do canal {}", <<n>>),
               Body("Erro ao parar um dos processos do streaming do canal {}",
                    <<n>>)}
         ELSE IF x = "NotRunning"
         THEN {Body("Nenhum stream esta em execucao para o canal {}", <<n>>)}
         ELSE IF x = "StatusError"
         THEN {Body("Erro ao verificar o status do ffmpeg para o canal {}",
                    <<n>>)}
         ELSE {Body(x, <<>>)}   \* ServiceStatusResponse {status}

\* The responses that are not failures: 200 with a success text or a status.
Successes == {"none", "Started", "Stopped", "Active", "Inactive"}

\* The body b carries the display name of channel c.
NamesChannel(b, c) == \E i \in 1..Len(b.args) : b.args[i] = channel_name(c)

(***************************************************************************)
(* C21.  Every failure response of start, stop and status, of either kind, *)
(* has a body that includes the display name of the channel of the         *)
(* request (when the channel exists and so has one).                       *)
(***************************************************************************)
C21_FailureNamesChannel ==
    (response.resp \notin Successes /\ response.req.id \in ChannelIds) =>
        \A b \in json(response.req, response.resp) :
            NamesChannel(b, response.req.id)


(***************************************************************************)
(* C22.  Target resolution is a precondition of the stream kind only: no   *)
(* start of the bot kind is refused with NoValidTarget (with the           *)
(* executable found, the start goes on to the spawn whatever the ingest    *)
(* configuration of the channel is).                                       *)
(***************************************************************************)
C22_BotStartNeedsNoTarget ==
    [][\A c \in ChannelIds : \A r \in StartReqs("ytbot", c) :
          Begins(r) => response'.resp # "NoValidTarget"]_vars


-----------------------------------------------------------------------------
(***************************************************************************)
(* Both kinds served in one run: requests for the bot and for the stream   *)
(* of the same channel arrive at the same workers.                         *)
(***************************************************************************)
BothChannels == {1}

\* The request taken up or answered by the step is for one of BothChannels.
ForBoth ==
    /\ \A t \in Tasks : req'[t] # NoRequest => req'[t].id \in BothChannels
    /\ response'.req # NoRequest => response'.req.id \in BothChannels

InitBoth ==
    /\ world = "both"
    /\ queued = FALSE
    /\ environment = Unpinned
    /\ drain = Unobserved
    /\ Boot

NextBoth ==
    \/ Forget
    \/ \E t \in Tasks :
         \/ YtbotStart(t) /\ ForBoth
         \/ LivestreamStart(t) /\ ForBoth
         \/ StartInsert(t)
         \/ YtbotStop(t) /\ ForBoth
         \/ LivestreamStop(t) /\ ForBoth
         \/ KillSignal(t)
         \/ KillWait(t)
         \/ is_ytbot_active(t) /\ ForBoth
         \/ is_ffmpeg_livestream_active(t) /\ ForBoth
         \/ StatusPoll(t)
    \/ \E p \in Pids :
         \/ ProcExit(p)
         \/ CopyEnds(p)
         \/ CopyLockStreamlink(p)
         \/ CopyLockFfmpeg(p)
         \/ CopyWaitStreamlink(p)
         \/ CopyKillFfmpeg(p)
         \/ CopyWaitFfmpeg(p)

SpecBoth == InitBoth /\ [][NextBoth]_vars

-----------------------------------------------------------------------------
(***************************************************************************)
(* The log-draining tasks: tokio::spawn(async move { while let             *)
(* Ok(Some(line)) = lines.next_line().await { debug!(..) } }), one per     *)
(* captured stream, detached (the JoinHandle is dropped at once).          *)
(***************************************************************************)
\* The write end of the pipe is closed: the child closed it, or has exited.
Closed(p, s) == drain[p][s].pipe = "closed" \/ childState[p] # "alive"

\* Lines::next_line(), when it returns: Ok(Some(line)), Ok(None) at end of
\* file (possible only once the write end is closed, after the lines still
\* buffered), or an io::Error (a failed read, a line that is not UTF-8).
next_line(closed) ==
    IF closed THEN {"Some", "None", "Err"} ELSE {"Some", "Err"}

\* One turn of the loop: a line is logged and the loop goes on; anything
\* else ends the task, which drops its reader.
DrainStep(p, s) ==
    /\ drain # Unobserved
    /\ drain[p][s].task = "reading"
    /\ \E r \in next_line(Closed(p, s)) :
         drain' = IF r = "Some" THEN drain
                  ELSE [drain EXCEPT ![p][s].task = "ended"]
    /\ response' = NoResponse
    /\ UNCHANGED <<setupVars, ret, regVars, regLock, procVars, copyTask,
                   taskVars, waited>>

\* The child closes a captured stream while it runs.
PipeCloses(p, s) ==
    /\ drain # Unobserved
    /\ Garbage = {}
    /\ childState[p] = "alive"
    /\ drain[p][s] = Draining
    /\ drain' = [drain EXCEPT ![p][s].pipe = "closed"]
    /\ response' = NoResponse
    /\ UNCHANGED <<setupVars, ret, regVars, regLock, procVars, copyTask,
                   taskVars, waited>>

\* A forgotten child gives its slot back once its drains are over.
DrainsOver ==
    \A p \in Garbage : \A s \in Streams : drain[p][s].task # "reading"

\* One worker serves the starts and stops for one channel; the relay of a
\* pair keeps copying.
DrainTasks == {1}
DrainChannels == {1}
\* At most DrainProcs children exist at a time.
ForDrain ==
    /\ \A t \in Tasks : req'[t] # NoRequest => req'[t].id \in DrainChannels
    /\ response'.req # NoRequest => response'.req.id \in DrainChannels
    /\ \A p \in Pids : p > DrainProcs => childState'[p] = "unborn"

InitDrain ==
    /\ world \in {"ytbot", "livestream"}
    /\ queued = FALSE
    /\ environment = Unpinned
    /\ drain = [p \in Pids |-> NoDrain]
    /\ Boot

NextDrain ==
    \/ Forget /\ DrainsOver
    \/ \E t \in DrainTasks :
         \/ YtbotStart(t) /\ ForDrain
         \/ LivestreamStart(t) /\ ForDrain
         \/ StartInsert(t)
         \/ YtbotStop(t) /\ ForDrain
         \/ LivestreamStop(t) /\ ForDrain
         \/ KillWait(t)
    \/ \E p \in Pids :
         \/ ProcExit(p)
         \/ \E s \in Streams : DrainStep(p, s) \/ PipeCloses(p, s)

\* The runtime polls a spawned task whose read is ready: at end of file the
\* read returns and the task ends.
DrainReturns(p, s) ==
    DrainStep(p, s) /\ Closed(p, s) /\ drain'[p][s].task = "ended"
FairDrain == \A p \in Pids : \A s \in Streams : WF_vars(DrainReturns(p, s))

SpecDrain == InitDrain /\ [][NextDrain]_vars /\ FairDrain

-----------------------------------------------------------------------------
(***************************************************************************)
(* The handlers at the grain of their lock operations.  The workers run on *)
(* several threads, so a guard of a std::sync::Mutex taken by one handler  *)
(* is seen by the others until it is dropped; lock() blocks the thread     *)
(* while the mutex is taken and answers Err once the mutex is poisoned.    *)
(* The children are not followed: an entry stands for its handles.         *)
(***************************************************************************)
LockResults == {"Ok", "Err"}
CtlHandles(k) == IF k = "ytbot" THEN <<1>> ELSE <<1, 2>>

\* A fault: the guards outlive the function that took them.
drop_guards_kept(c, t) == c
\* The function returns: the guards it holds are dropped.
drop_guards(c, t) ==
    [controllers |-> IF c.controllers = t THEN NoTask ELSE c.controllers,
     channel |-> [x \in ChannelIds |->
                    IF c.channel[x] = t THEN NoTask ELSE c.channel[x]],
     config |-> [x \in ChannelIds |->
                   IF c.config[x] = t THEN NoTask ELSE c.config[x]]]

CtlFrame ==
    UNCHANGED <<world, queued, environment, drain, ret, procVars, copyTask,
                held, kq, kres, err, snap, sent, waited>>

CtlGoes(t, p) ==
    /\ pc' = [pc EXCEPT ![t] = p]
    /\ response' = NoResponse
    /\ UNCHANGED req

\* The handler returns x; its registry guard, if it has one, is dropped.
CtlReturns(t, x) ==
    /\ pc' = [pc EXCEPT ![t] = "idle"]
    /\ req' = [req EXCEPT ![t] = NoRequest]
    /\ response' = [req |-> req[t], resp |-> x]
    /\ regLock' = [k \in Kinds |-> IF regLock[k] = t THEN NoTask ELSE regLock[k]]

\* The requests name one channel, or a channel the controller does not hold.
CtlChannels == {1}

\* A request reaches a worker: its handler calls get_channel_name.
CtlArrive(t) ==
    /\ pc[t] = "idle"
    /\ \E k \in KindsOf(world) : \E r \in Requests(k) :
         /\ r.id \in CtlChannels \cup (RequestIds \ ChannelIds)
         /\ req' = [req EXCEPT ![t] = r]
    /\ pc' = [pc EXCEPT ![t] = "name"]
    /\ response' = NoResponse
    /\ UNCHANGED <<regVars, regLock, ctl>>
    /\ CtlFrame

\* get_channel_name: controllers.lock(), controller.get(channel_id)
NameControllers(t) ==
    /\ pc[t] = "name"
    /\ ctl.controllers = NoTask
    /\ \E res \in LockResults :
         IF res = "Ok" /\ req[t].id \in ChannelIds
         THEN /\ ctl' = [ctl EXCEPT !.controllers = t]
              /\ CtlGoes(t, "nameChannel")
              /\ UNCHANGED regLock
         ELSE /\ CtlReturns(t, "ChannelLookupFailed")
              /\ UNCHANGED ctl
    /\ UNCHANGED regVars
    /\ CtlFrame

\* get_channel_name: manager.channel.lock()
NameChannel(t) ==
    /\ pc[t] = "nameChannel"
    /\ ctl.channel[req[t].id] = NoTask
    /\ \E res \in LockResults :
         IF res = "Ok"
         THEN /\ ctl' = [ctl EXCEPT !.channel[req[t].id] = t]
              /\ CtlGoes(t, "nameHeld")
              /\ UNCHANGED regLock
         ELSE /\ CtlReturns(t, "ChannelLookupFailed")
              /\ ctl' = drop_guards(ctl, t)
    /\ UNCHANGED regVars
    /\ CtlFrame

\* get_channel_name: ch.name.clone(), Ok(channel_name); the handler goes on
\* to  PROCESSES.lock().await .
NameReturn(t) ==
    /\ pc[t] = "nameHeld"
    /\ ctl' = drop_guards(ctl, t)
    /\ CtlGoes(t, "lock")
    /\ UNCHANGED <<regVars, regLock>>
    /\ CtlFrame

\* PROCESSES.lock().await returns.  Start: contains_key, then the checks
\* of the url and the locators, which suspend in metadata().  Stop and
\* status: remove(&channel_id), then the kills or the poll.
RegistryLock(t) ==
    /\ pc[t] = "lock"
    /\ regLock[req[t].kind] = NoTask
    /\ LET k == req[t].kind
           c == req[t].id
           e == HashMapTake(Registry(k), c)
       IN IF req[t].action = "start"
          THEN /\ UNCHANGED regVars
               /\ IF contains_key(Registry(k), c)
                  THEN CtlReturns(t, "AlreadyRunning")
                  ELSE /\ regLock' = [regLock EXCEPT ![k] = t]
                       /\ CtlGoes(t, "path")
               /\ UNCHANGED held
          ELSE IF e = <<>>
          THEN /\ CtlReturns(t, IF req[t].action = "stop" THEN "NotRunning"
                                ELSE "Inactive")
               /\ UNCHANGED <<regVars, held>>
          ELSE /\ SetRegistry(k, HashMapRemove(Registry(k), c))
               /\ regLock' = [regLock EXCEPT ![k] = t]
               /\ held' = [held EXCEPT ![t] = e]
               /\ CtlGoes(t, IF req[t].action = "stop" THEN "kill" ELSE "poll")
    /\ UNCHANGED ctl
    /\ UNCHANGED <<world, queued, environment, drain, ret, procVars, copyTask,
                   kq, kres, err, snap, sent, waited>>

\* The url is checked and the locators answer: the start goes on to
\* extract_rtmp_stream_details, or returns its error.
PathFound(t) ==
    /\ pc[t] = "path"
    /\ \/ /\ CtlGoes(t, "rtmp")
          /\ UNCHANGED regLock
       \/ \E x \in {"ExecutableNotFound", "SpawnFailed", "PipeAcquisitionFailed"}
                   \cup (IF req[t].url = "none" THEN {"UrlMissing"} ELSE {})
                   \cup (IF req[t].url = "bad" THEN {"UrlInvalid"} ELSE {}) :
             CtlReturns(t, x)
    /\ UNCHANGED <<regVars, ctl>>
    /\ CtlFrame

\* extract_rtmp_stream_details: controllers.lock(), controller.get(id)
RtmpControllers(t) ==
    /\ pc[t] = "rtmp"
    /\ ctl.controllers = NoTask
    /\ \E res \in LockResults :
         IF res = "Ok"
         THEN /\ ctl' = [ctl EXCEPT !.controllers = t]
              /\ CtlGoes(t, "rtmpConfig")
              /\ UNCHANGED regLock
         ELSE /\ CtlReturns(t, "NoValidTarget")
              /\ UNCHANGED ctl
    /\ UNCHANGED regVars
    /\ CtlFrame

\* extract_rtmp_stream_details: manager.config.lock()
RtmpConfig(t) ==
    /\ pc[t] = "rtmpConfig"
    /\ ctl.config[req[t].id] = NoTask
    /\ \E res \in LockResults :
         IF res = "Ok"
         THEN /\ ctl' = [ctl EXCEPT !.config[req[t].id] = t]
              /\ CtlGoes(t, "rtmpHeld")
              /\ UNCHANGED regLock
         ELSE /\ CtlReturns(t, "NoValidTarget")
              /\ ctl' = drop_guards(ctl, t)
    /\ UNCHANGED regVars
    /\ CtlFrame

\* extract_rtmp_stream_details: the pattern is applied to input_param and
\* the function returns; the start goes on to its spawns, or returns.
RtmpReturn(t) ==
    /\ pc[t] = "rtmpHeld"
    /\ ctl' = drop_guards(ctl, t)
    /\ \/ /\ CtlGoes(t, "insert")
          /\ UNCHANGED regLock
       \/ CtlReturns(t, "NoValidTarget")
    /\ UNCHANGED regVars
    /\ CtlFrame

\* The spawns and the takes of the pipes, then processes.insert.
CtlInsert(t) ==
    /\ pc[t] = "insert"
    /\ \/ /\ SetRegistry(req[t].kind,
                         HashMapInsert(Registry(req[t].kind), req[t].id,
                                       CtlHandles(req[t].kind)))
          /\ CtlReturns(t, "Started")
       \/ /\ \E x \in {"SpawnFailed", "PipeAcquisitionFailed"} : CtlReturns(t, x)
          /\ UNCHANGED regVars
    /\ UNCHANGED ctl
    /\ CtlFrame

\* The kills of a stop are over.
CtlKilled(t) ==
    /\ pc[t] = "kill"
    /\ \E x \in {"Stopped", "KillError"} : CtlReturns(t, x)
    /\ held' = [held EXCEPT ![t] = <<>>]
    /\ UNCHANGED <<regVars, ctl>>
    /\ UNCHANGED <<world, queued, environment, drain, ret, procVars, copyTask,
                   kq, kres, err, snap, sent, waited>>

\* The poll of a status: the entry goes back if the child runs.
CtlPolled(t) ==
    /\ pc[t] = "poll"
    /\ \/ /\ SetRegistry(req[t].kind,
                         HashMapInsert(Registry(req[t].kind), req[t].id, held[t]))
          /\ CtlReturns(t, "Active")
       \/ /\ \E x \in {"Inactive", "StatusError"} : CtlReturns(t, x)
          /\ UNCHANGED regVars
    /\ held' = [held EXCEPT ![t] = <<>>]
    /\ UNCHANGED ctl
    /\ UNCHANGED <<world, queued, environment, drain, ret, procVars, copyTask,
                   kq, kres, err, snap, sent, waited>>

\* Another task locks the controller, a channel or a configuration, one
\* guard at a time (let manager = controllers.lock().unwrap().get(*id)
\* .unwrap(); let config = manager.config.lock().unwrap().clone();).
OtherHolds ==
    \/ ctl.controllers = OtherTask
    \/ \E c \in ChannelIds : OtherTask \in {ctl.channel[c], ctl.config[c]}
OtherLocks ==
    /\ ~OtherHolds
    /\ \/ ctl.controllers = NoTask /\ ctl' = [ctl EXCEPT !.controllers = OtherTask]
       \/ \E c \in CtlChannels :
            \/ ctl.channel[c] = NoTask
                 /\ ctl' = [ctl EXCEPT !.channel[c] = OtherTask]
            \/ ctl.config[c] = NoTask
                 /\ ctl' = [ctl EXCEPT !.config[c] = OtherTask]
    /\ response' = NoResponse
    /\ UNCHANGED <<regVars, regLock, pc, req>>
    /\ CtlFrame
OtherUnlocks ==
    /\ OtherHolds
    /\ ctl' = drop_guards(ctl, OtherTask)
    /\ response' = NoResponse
    /\ UNCHANGED <<regVars, regLock, pc, req>>
    /\ CtlFrame

InitCtl ==
    /\ world \in {"ytbot", "livestream"}
    /\ queued = FALSE
    /\ environment = Unpinned
    /\ drain = Unobserved
    /\ Boot

NextCtl ==
    \/ \E t \in Tasks :
         \/ CtlArrive(t)
         \/ NameControllers(t)
         \/ NameChannel(t)
         \/ NameReturn(t)
         \/ RegistryLock(t)
         \/ PathFound(t)
         \/ RtmpControllers(t)
         \/ RtmpConfig(t)
         \/ RtmpReturn(t)
         \/ CtlInsert(t)
         \/ CtlKilled(t)
         \/ CtlPolled(t)
    \/ OtherLocks
    \/ OtherUnlocks

SpecCtl == InitCtl /\ [][NextCtl]_vars


OtherKind(k) == IF k = "ytbot" THEN "livestream" ELSE "ytbot"

\* The step is one of the handler of a request of kind k: it answers such a
\* request, or a worker with such a request moves.
HandlerStep(k) ==
    \/ response'.req.kind = k
    \/ \E t \in Tasks :
         /\ k \in {req[t].kind, req'[t].kind}
         /\ <<pc[t], req[t], kq[t]>> # <<pc'[t], req'[t], kq'[t]>>

(***************************************************************************)
(* C23.  The registries of the two kinds are independent.  A step of a     *)
(* start, stop or status of one kind leaves the registry and the lock of   *)
(* the other kind as they are; and whenever the lock of its own registry   *)
(* is free, a start, a stop and a status of a kind can go ahead on a free  *)
(* worker, whether or not the lock of the other registry is taken.  (The   *)
(* witness is a channel with a running bot entry and a running stream      *)
(* entry at the same time.)                                                *)
(***************************************************************************)
C23_RegistriesIndependent ==
    /\ [][\A k \in Kinds :
            HandlerStep(k) =>
                /\ RegistryAfter(OtherKind(k)) = Registry(OtherKind(k))
                /\ regLock'[OtherKind(k)] = regLock[OtherKind(k)]]_vars
    /\ [](\A t \in Tasks : \A k \in Kinds :
            (pc[t] = "idle" /\ regLock[k] = NoTask /\ Garbage = {}) =>
                /\ ENABLED Status(t, k)
                /\ ENABLED Stop(t, k)
                /\ k = "ytbot" => ENABLED YtbotStart(t)
                /\ k = "livestream" => ENABLED LivestreamStart(t))

\* Channel 1 has a running bot and a running pair, and a status of the bot
\* has just been answered Active.
C23_Witness ==
    /\ YTBOT_PROCESSES[1] # <<>>
    /\ STREAM_PROCESSES[1] # <<>>
    /\ \A p \in Range(YTBOT_PROCESSES[1]) \cup Range(STREAM_PROCESSES[1]) :
          childState[p] = "alive"
    /\ response = [req |-> StatusReq("ytbot", 1), resp |-> "Active"]


\* Worker t is inside a stop.
Stopping(t) == req[t].action = "stop" /\ pc[t] # "idle"

\* The processes of the entries of registry k.
Registered(k) == UNION {Range(Registry(k)[c]) : c \in ChannelIds}

(***************************************************************************)
(* C24.  Stop removes the entry before it terminates the handles and       *)
(* keeps the registry lock until the last termination has finished: while  *)
(* a stop is under way it holds the lock of its registry, its channel has  *)
(* no entry and none of the handles it took out (signalled already or      *)
(* still to be signalled) is in the registry; a stop that finds an entry   *)
(* has removed it by the end of its first step; and no start, stop or      *)
(* status of the same kind reaches the registry while a stop is under way, *)
(* so none observes a half-stopped entry.                                  *)
(***************************************************************************)
C24_StopHidesEntry ==
    [][/\ \A t \in Tasks :
            Stopping(t) =>
                /\ regLock[req[t].kind] = t
                /\ Registry(req[t].kind)[req[t].id] = <<>>
                /\ Range(held[t]) \cap Registered(req[t].kind) = {}
                /\ Range(sent[t]) \subseteq Range(held[t])
                /\ Range(kq[t]) \subseteq Range(held[t])
       /\ \A k \in Kinds : \A c \in ChannelIds :
            (Begins(StopReq(k, c)) /\ Registry(k)[c] # <<>>) =>
                /\ RegistryAfter(k)[c] = <<>>
                /\ \A p \in Pids :
                     (signalled'[p] /\ ~signalled[p]) =>
                         p \notin UNION {Range(RegistryAfter(k)[d]) :
                                           d \in ChannelIds}
       /\ \A k \in Kinds : \A r \in Requests(k) :
            (Begins(r) /\ response'.resp # "ChannelLookupFailed") =>
                \A t \in Tasks : ~(Stopping(t) /\ req[t].kind = k)
      ]_vars

\* A stop of a pair waits for the exit of ffmpeg, having killed streamlink,
\* while another worker is free.
C24_Witness ==
    \E t \in Tasks :
      /\ req[t] = StopReq("livestream", 1)
      /\ pc[t] = "killWait"
      /\ Len(sent[t]) = 2
      /\ childState[sent[t][2]] = "alive"
      /\ \E u \in Tasks : pc[u] = "idle"


(***************************************************************************)
(* C25.  A status call that polls an entry whose polled process runs puts  *)
(* the same handles back before it lets go of the registry lock: it        *)
(* answers Active and the registry after the call is the registry before   *)
(* it; and while the entry is out (the call waits for the handle) the call *)
(* holds the registry lock, the registry is what it found less that entry, *)
(* and no other start, stop or status of the kind reaches the registry.    *)
(***************************************************************************)
C25_StatusRestoresEntry ==
    [][/\ \A k \in Kinds : \A c \in ChannelIds : \A e \in Entries(k) :
            (/\ PollsEntry(StatusReq(k, c), e)
             /\ childState[Polled(e)] = "alive") =>
                /\ Answers(StatusReq(k, c), "Active")
                /\ RegistryAfter(k) = [Registry(k) EXCEPT ![c] = e]
       /\ \A t \in Tasks :
            pc[t] = "poll" =>
                /\ regLock[req[t].kind] = t
                /\ snap[t][req[t].id] = held[t]
                /\ Registry(req[t].kind) =
                       [snap[t] EXCEPT ![req[t].id] = <<>>]
                /\ \A r \in Requests(req[t].kind) :
                     (Begins(r) /\ response'.resp # "ChannelLookupFailed")
                         => FALSE
      ]_vars


\* The relay tasks the step starts: tokio::spawn(copy_task).
RelayStarted ==
    {p \in Pids : copyTask[p].pc = "none" /\ copyTask'[p].pc = "copying"}

(***************************************************************************)
(* C26.  In a livestream start the relay task is started only once both    *)
(* processes are spawned and every pipe is taken, and before the insert:   *)
(* the step that starts a relay task is a step of a start handler that     *)
(* spawned exactly the pair of the task, met no failure, still holds the   *)
(* registry lock and has not inserted yet; a start that fails starts no    *)
(* relay task; the insert puts in a pair whose relay task was started; and *)
(* every pair in the registry has had its relay task started.              *)
(***************************************************************************)
C26_RelayBeforeInsert ==
    [][/\ \A p \in RelayStarted :
            \E t \in Tasks :
              /\ pc[t] = "idle" /\ pc'[t] = "insert"
              /\ req'[t].kind = "livestream" /\ req'[t].action = "start"
              /\ held'[t] = <<p, copyTask'[p].ffmpeg>>
              /\ Spawned = {p, copyTask'[p].ffmpeg}
              /\ p # copyTask'[p].ffmpeg
              /\ err'[t] = "Started"
              /\ regLock'["livestream"] = t
              /\ STREAM_PROCESSES' = STREAM_PROCESSES
              /\ STREAM_PROCESSES[req'[t].id] = <<>>
       /\ (response'.req.action = "start"
             /\ response'.resp \notin {"none", "Started"}) =>
              RelayStarted = {}
       /\ \A t \in Tasks :
            (pc[t] = "insert" /\ req[t].kind = "livestream") =>
                /\ copyTask[held[t][1]].pc # "none"
                /\ copyTask[held[t][1]].ffmpeg = held[t][2]
       /\ \A c \in ChannelIds :
            STREAM_PROCESSES[c] # <<>> =>
                /\ copyTask[STREAM_PROCESSES[c][1]].pc # "none"
                /\ copyTask[STREAM_PROCESSES[c][1]].ffmpeg =
                       STREAM_PROCESSES[c][2]
      ]_vars

\* A start has spawned the pair and its relay task and stands before the
\* insert; the relay task copies.
C26_Witness ==
    \E t \in Tasks :
      /\ pc[t] = "insert"
      /\ req[t].kind = "livestream"
      /\ STREAM_PROCESSES[req[t].id] = <<>>
      /\ copyTask[held[t][1]] = [pc |-> "copying", ffmpeg |-> held[t][2]]


\* The stop of a pair at worker t returns in this step.
PairStopReturns(t) ==
    /\ req[t].kind = "livestream" /\ req[t].action = "stop"
    /\ pc[t] \in {"kill", "killWait"} /\ pc'[t] = "idle"

\* Relay positions of the teardown after a copy error.
Teardown == {"lockStreamlink", "lockFfmpeg", "waitStreamlink", "killFfmpeg",
             "waitFfmpeg"}

(***************************************************************************)
(* C27.  The members of a pair are terminated independently.  In a stop:   *)
(* after a failed or timed-out termination of streamlink the handler goes  *)
(* on to ffmpeg; when the stop returns, a kill has been attempted on each  *)
(* member (SIGKILL sent by this stop, or the child found already reaped);  *)
(* the answer is not Stopped when a termination failed, Stopped is         *)
(* answered only with both members reaped, and a stop that answers         *)
(* without any wait found both members reaped.  In the relay               *)
(* teardown: the wait for streamlink leads to the kill of ffmpeg whatever  *)
(* it came to, and the task ends only after the attempt on ffmpeg.         *)
(***************************************************************************)
C27_PairKilledIndependently ==
    [][/\ \A t \in Tasks :
            (req[t].kind = "livestream" /\ req[t].action = "stop"
               /\ pc[t] # "idle") =>
                /\ Len(kres[t]) + Len(kq[t]) = Len(held[t])
                /\ kq[t] = SubSeq(held[t], Len(kres[t]) + 1, Len(held[t]))
       /\ \A t \in Tasks :
            PairStopReturns(t) =>
                /\ \A p \in Range(held[t]) :
                      p \in Range(sent[t]) \/ childState'[p] = "reaped"
                /\ (\E i \in 1..Len(kres[t]) : kres[t][i] # "Ok") =>
                      response'.resp \in {"KillError", "KillTimeout"}
                /\ response'.req = req[t]
                /\ response'.resp \in {"Stopped", "KillError", "KillTimeout"}
                /\ response'.resp = "Stopped" =>
                      \A p \in Range(held[t]) : childState'[p] = "reaped"
       /\ \A c \in ChannelIds :
            (/\ pc' = pc
             /\ response'.req = StopReq("livestream", c)
             /\ STREAM_PROCESSES[c] # <<>>) =>
                /\ \A p \in Range(STREAM_PROCESSES[c]) :
                      childState[p] = "reaped"
                /\ response'.resp \in {"Stopped", "KillError"}
       /\ \A p \in Pids :
            /\ copyTask[p].pc = "waitStreamlink" =>
                  copyTask'[p].pc \in {"waitStreamlink", "killFfmpeg"}
            /\ (copyTask[p].pc \in Teardown /\ copyTask'[p].pc = "done") =>
                  \/ copyTask[p].pc = "waitFfmpeg"
                  \/ /\ copyTask[p].pc = "killFfmpeg"
                     /\ childState[copyTask[p].ffmpeg] = "reaped"
      ]_vars

\* The termination of streamlink failed in a stop, and the stop has sent
\* SIGKILL to ffmpeg and waits for its exit.
C27_Witness ==
    \E t \in Tasks :
      /\ req[t].kind = "livestream" /\ req[t].action = "stop"
      /\ pc[t] = "killWait"
      /\ kres[t] # <<>> /\ kres[t][1] # "Ok"
      /\ kq[t] = <<held[t][2]>>
      /\ signalled[held[t][2]]


\* The step is one of the relay task of the pair whose streamlink is p.
RelayStep(p) ==
    /\ copyTask[p].pc \notin {"none", "done"}
    /\ copyTask'[p].pc # copyTask[p].pc

\* The relay task of entry e has torn the pair down and ended, and no
\* process of the pair runs.
TornDown(e) ==
    /\ e # <<>>
    /\ copyTask[e[1]].pc = "done"
    /\ Live(e) = {}

(***************************************************************************)
(* C28.  The relay task never touches the registry: each of its steps      *)
(* (the end of the copy, the locks, the kills, the waits) leaves           *)
(* STREAM_PROCESSES as it is, whether the pair is inserted already or the  *)
(* start still stands before the insert.  The entry of a pair leaves the   *)
(* registry only in the first step of a stop or a status for its channel;  *)
(* and as long as it is there a start for the channel is answered          *)
(* AlreadyRunning, also when the relay task has ended and no process of    *)
(* the pair is alive.                                                      *)
(***************************************************************************)
C28_RelayLeavesEntry ==
    [][/\ \A p \in Pids :
            RelayStep(p) =>
                /\ STREAM_PROCESSES' = STREAM_PROCESSES
                /\ \A t \in Tasks : pc'[t] = pc[t] /\ held'[t] = held[t]
       /\ \A c \in ChannelIds :
            (STREAM_PROCESSES[c] # <<>> /\ STREAM_PROCESSES'[c] = <<>>) =>
                \/ Begins(StopReq("livestream", c))
                \/ Begins(StatusReq("livestream", c))
       /\ \A c \in ChannelIds : \A r \in StartReqs("livestream", c) :
            (Begins(r) /\ TornDown(STREAM_PROCESSES[c])) =>
                /\ Answers(r, "AlreadyRunning")
                /\ STREAM_PROCESSES' = STREAM_PROCESSES
      ]_vars

\* A start was refused as AlreadyRunning for a channel whose pair the relay
\* task has killed: the entry is there and both processes are reaped.
C28_Witness ==
    /\ response.resp = "AlreadyRunning"
    /\ response.req.kind = "livestream"
    /\ response.req.id \in ChannelIds
    /\ TornDown(STREAM_PROCESSES[response.req.id])
    /\ \A p \in Range(STREAM_PROCESSES[response.req.id]) :
          childState[p] = "reaped"


(***************************************************************************)
(* C29.  A request whose channel lookup fails is answered                  *)
(* ChannelLookupFailed before any access to a registry: the step takes no  *)
(* registry lock, adds, removes or polls no entry, spawns and signals no   *)
(* process and leaves every handler and relay task where it was; this is   *)
(* so for start, stop and status of both kinds, it is the only answer such *)
(* a request gets, and it is given without waiting, also while another     *)
(* handler holds the lock of the registry.                                 *)
(***************************************************************************)
C29_LookupFailureTouchesNothing ==
    /\ [][/\ response'.resp = "ChannelLookupFailed" =>
               /\ get_channel_name(response'.req.id) = "Err"
               /\ UNCHANGED <<regVars, regLock, procVars, copyTask, taskVars>>
          /\ \A k \in Kinds : \A r \in Requests(k) :
               (Begins(r) /\ r.id \notin ChannelIds) =>
                   Answers(r, "ChannelLookupFailed")
         ]_vars
    /\ [](\A t \in Tasks :
            (pc[t] = "idle" /\ Garbage = {}) => ENABLED LookupFails(t))

\* A status for a channel the controller does not hold was answered while
\* a handler of the same kind held the registry lock.
C29_Witness ==
    /\ response.resp = "ChannelLookupFailed"
    /\ response.req.action = "status"
    /\ regLock[response.req.kind] # NoTask


\* The status line of a response: HttpResponse::Ok / BadRequest /
\* InternalServerError.
http_status(x) ==
    IF x \in {"Started", "Stopped", "Active", "Inactive"} THEN 200
    ELSE IF x \in {"AlreadyRunning", "NotRunning", "UrlMissing", "UrlInvalid"}
    THEN 400
    ELSE 500

(***************************************************************************)
(* C30.  A livestream start needs a url.  On a channel without entry a     *)
(* start with no url is answered UrlMissing and one with a url that does   *)
(* not parse UrlInvalid, both client errors (400), spawning and signalling *)
(* nothing and leaving the registry as it is; on a channel with an entry   *)
(* the start is answered AlreadyRunning whatever its url is, the presence  *)
(* test coming first; a start with a valid url is never refused for its    *)
(* url; and no stop, no status and no request of the bot kind, none of     *)
(* which carries a url, is ever refused for a url.                         *)
(***************************************************************************)
C30_UrlRequiredForStreamStart ==
    [][/\ \A c \in ChannelIds : \A r \in StartReqs("livestream", c) :
            Begins(r) =>
                /\ STREAM_PROCESSES[c] # <<>> => Answers(r, "AlreadyRunning")
                /\ (STREAM_PROCESSES[c] = <<>> /\ r.url \in {"none", "bad"}) =>
                      /\ Answers(r, IF r.url = "none" THEN "UrlMissing"
                                    ELSE "UrlInvalid")
                      /\ http_status(response'.resp) = 400
                      /\ UNCHANGED <<regVars, procVars, copyTask>>
                /\ r.url = "ok" =>
                      response'.resp \notin {"UrlMissing", "UrlInvalid"}
       /\ response'.resp \in {"UrlMissing", "UrlInvalid"} =>
            /\ response'.req.kind = "livestream"
            /\ response'.req.action = "start"
       /\ \A k \in Kinds : \A r \in Requests(k) :
            (k = "ytbot" \/ r.action # "start") => r.url = "none"
      ]_vars

\* A start without url was answered AlreadyRunning on a channel whose pair
\* is registered.
C30_Witness ==
    /\ response.resp = "AlreadyRunning"
    /\ response.req.kind = "livestream"
    /\ response.req.url = "none"
    /\ response.req.id \in ChannelIds
    /\ STREAM_PROCESSES[response.req.id] # <<>>


-----------------------------------------------------------------------------
\* Where the leftmost colon followed by a digit stands in s.
Leftmost(s) ==
    CHOOSE a \in 1..Len(s) :
        /\ ColonDigit(SubSeq(s, a, a + 1))
        /\ ~ColonDigit(SubSeq(s, 1, a))

\* How many digits are captured there: the whole run, five at most.
CapturedDigits(s) ==
    LET i == Leftmost(s) IN
    CHOOSE b \in 1..5 :
        /\ i + b <= Len(s)
        /\ IsDecimal(SubSeq(s, i + 1, i + b))
        /\ b = 5 \/ i + b = Len(s) \/ ~IsDecimal(<<s[i + b + 1]>>)

\* The text from position j of s up to the next white space or the end.
UpToSpace(s, j) ==
    LET stops == {x \in j..Len(s) : s[x] \in {" ", "\t", "\n"}}
        last == IF stops = {} THEN Len(s)
                ELSE (CHOOSE x \in stops : \A y \in stops : x <= y) - 1
    IN SubSeq(s, j, last)

(***************************************************************************)
(* C33.  Target resolution is a function of the ingest string alone and    *)
(* looks only at the leftmost colon that a digit follows.  The key is the  *)
(* text between the captured digits and the next white space, character    *)
(* for character; when the captured digits are more than 65535 the answer  *)
(* is NoValidTarget, also when a later colon-digit in the string would do; *)
(* when six or more digits follow the colon the first five are the port    *)
(* and the sixth is the first character of the key.                        *)
(***************************************************************************)
C33_LeftmostMatchOnly ==
    (Resolved /\ ColonDigit(environment.input_param)) =>
        LET s == environment.input_param
            i == Leftmost(s)
            n == CapturedDigits(s)
            v == ValueOf(SubSeq(s, i + 1, i + n))
            key == UpToSpace(s, i + n + 1)
            out == ret.value
        IN  /\ v > 65535 => out = NoValidTarget
            /\ v <= 65535 =>
                  /\ out # NoValidTarget
                  /\ Len(out) > Len(key)
                  /\ SubSeq(out, Len(out) - Len(key) + 1, Len(out)) = key
                  /\ out[1] = ":"
                  /\ ValueOf(SubSeq(out, 2, Len(out) - Len(key))) = v
                  /\ IsDecimal(SubSeq(out, 2, Len(out) - Len(key)))
                  /\ Len(out) - Len(key) = 2 \/ out[2] # "0"
            /\ (n = 5 /\ i + 6 <= Len(s) /\ IsDecimal(<<s[i + 6]>>)) =>
                  /\ key # <<>> /\ key[1] = s[i + 6]
                  /\ v = ValueOf(SubSeq(s, i + 1, i + 5))

\* The leftmost colon-digit holds 70000 and a later one holds 80: the
\* answer is NoValidTarget.
C33_Witness ==
    /\ Resolved
    /\ environment.input_param =
          <<":", "7", "0", "0", "0", "0", " ", ":", "8", "0">>
    /\ ret.value = NoValidTarget


-----------------------------------------------------------------------------
\* The step is one of a handler of a request of kind k for channel c: it
\* answers such a request, or a worker with such a request moves.
StepOn(k, c) ==
    \/ response'.req.kind = k /\ response'.req.id = c
    \/ \E t \in Tasks :
         /\ \/ req[t].kind = k /\ req[t].id = c
            \/ req'[t].kind = k /\ req'[t].id = c
         /\ <<pc[t], req[t], kq[t]>> # <<pc'[t], req'[t], kq'[t]>>

(***************************************************************************)
(* C34.  A start, stop or status for channel c changes no entry of another *)
(* channel of the same registry: after each step of its handler, whether   *)
(* it ends in success or in any failure, every other channel has the entry *)
(* (the same handles) or the absence it had before; and an entry changes   *)
(* only in a step of a handler for its own channel.                        *)
(***************************************************************************)
C34_OtherChannelsUntouched ==
    [][\A k \in Kinds : \A c \in ChannelIds :
          /\ StepOn(k, c) =>
                \A d \in ChannelIds \ {c} :
                    RegistryAfter(k)[d] = Registry(k)[d]
          /\ RegistryAfter(k)[c] # Registry(k)[c] => StepOn(k, c)]_vars

\* A stop for channel 1 ended in a failure while channel 2 keeps its entry.
C34_Witness ==
    /\ response.req.action = "stop"
    /\ response.req.id = 1
    /\ response.resp = "KillError"
    /\ Registry(response.req.kind)[1] = <<>>
    /\ Registry(response.req.kind)[2] # <<>>


(***************************************************************************)
(* C35.  Round trip.  A channel without entry gets one by a successful     *)
(* start; a stop that finds that entry leaves the channel without entry    *)
(* again (the registry is as it was before the start), and a status that   *)
(* finds no entry answers Inactive and leaves it so; a status that finds   *)
(* the entry of a successful start with its processes still running        *)
(* answers Active and leaves the entry in place.                           *)
(***************************************************************************)
C35_RoundTrip ==
    [][\A k \in Kinds : \A c \in ChannelIds :
          /\ \A r \in StartReqs(k, c) :
                Answers(r, "Started") =>
                    /\ Registry(k)[c] = <<>>
                    /\ RegistryAfter(k)[c] # <<>>
          /\ (response'.req = StopReq(k, c)
                /\ response'.resp \in {"Stopped", "KillError", "KillTimeout"})
                => RegistryAfter(k) = [Registry(k) EXCEPT ![c] = <<>>]
          /\ PollsEntry(StatusReq(k, c), <<>>) =>
                /\ Answers(StatusReq(k, c), "Inactive")
                /\ RegistryAfter(k) = Registry(k)
          /\ \A e \in Entries(k) :
                (/\ PollsEntry(StatusReq(k, c), e)
                 /\ Live(e) = Range(e)) =>
                    /\ Answers(StatusReq(k, c), "Active")
                    /\ RegistryAfter(k)[c] = e]_vars


(***************************************************************************)
(* C36.  Status is idempotent.  A status call that comes right after a     *)
(* status call for the same channel (nothing at all happens in between)    *)
(* gives the same answer and leaves the registry as the first one left it. *)
(* A status call that answers Inactive leaves the channel without entry;   *)
(* a channel without entry is answered Inactive; and a channel without     *)
(* entry gets one only in the step in which a start answers Started.       *)
(***************************************************************************)
C36_StatusIdempotent ==
    [][\A k \in Kinds : \A c \in ChannelIds :
          /\ (/\ response.req = StatusReq(k, c)
              /\ response'.req = StatusReq(k, c)
              /\ pc' = pc) =>
                 /\ response'.resp = response.resp
                 /\ RegistryAfter(k) = Registry(k)
          /\ Answers(StatusReq(k, c), "Inactive") => RegistryAfter(k)[c] = <<>>
          /\ PollsEntry(StatusReq(k, c), <<>>) =>
                Answers(StatusReq(k, c), "Inactive")
          /\ (Registry(k)[c] = <<>> /\ RegistryAfter(k)[c] # <<>>) =>
                \/ \E r \in StartReqs(k, c) : Answers(r, "Started")
                \/ \E t \in Tasks : pc[t] = "poll" /\ req[t] = StatusReq(k, c)
      ]_vars


(***************************************************************************)
(* C31.  The log-draining tasks.  A start that answers Started leaves one  *)
(* task reading every captured stream of the handles it registered and     *)
(* has released the registry lock in that same step (it waits for none of  *)
(* them); a task ends only in a step taken when its stream is closed (the  *)
(* child has exited or has closed the pipe), so for a registered handle    *)
(* whose stream is open the task is reading; and once the child has        *)
(* exited, each of its tasks that is still reading eventually ends.        *)
(***************************************************************************)
Drained(k, e) ==
    UNION {{<<e[i], s>> : s \in DrainedStreams(k, i)} : i \in 1..Len(e)}

C31_DrainsEndAtClose ==
    /\ [][/\ \A k \in Kinds : \A c \in ChannelIds : \A r \in StartReqs(k, c) :
               Answers(r, "Started") =>
                   /\ regLock'[k] = NoTask
                   /\ pc' = [t \in Tasks |-> "idle"]
                   /\ \A d \in Drained(k, RegistryAfter(k)[c]) :
                         drain'[d[1]][d[2]] = Draining
          /\ \A p \in Pids : \A s \in Streams :
               (drain[p][s].task = "reading" /\ drain'[p][s].task = "ended")
                   => Closed(p, s)]_vars
    /\ [](\A k \in Kinds : \A c \in ChannelIds :
            \A d \in Drained(k, Registry(k)[c]) :
               ~Closed(d[1], d[2]) => drain[d[1]][d[2]].task = "reading")
    /\ \A p \in Pids : \A s \in Streams :
          (childState[p] \in {"exited", "reaped"}
             /\ drain[p][s].task = "reading")
              ~> (drain[p][s].task # "reading")


\* Task t holds the guard of the controller, of a channel or of a
\* configuration.
CtlHeldBy(t) ==
    \/ ctl.controllers = t
    \/ \E c \in ChannelIds : t \in {ctl.channel[c], ctl.config[c]}

\* The positions at which a handler is suspended in an .await: for the
\* registry lock, for metadata(), for the lock of a handle, for a kill and
\* its timeout, for the poll.
SuspendedAt == {"lock", "path", "insert", "kill", "killWait", "poll"}

\* The holder of the lock the handler of t is waiting for, NoTask if it
\* waits for none or the lock is free.
WaitsOn(t) ==
    IF pc[t] \in {"name", "rtmp"} THEN ctl.controllers
    ELSE IF pc[t] = "nameChannel" THEN ctl.channel[req[t].id]
    ELSE IF pc[t] = "rtmpConfig" THEN ctl.config[req[t].id]
    ELSE IF pc[t] = "lock" THEN regLock[req[t].kind]
    ELSE NoTask

\* The tasks met by following WaitsOn from u for at most n steps.
RECURSIVE WaitChain(_, _)
WaitChain(u, n) ==
    IF u \notin Tasks \/ n = 0 THEN {}
    ELSE {u} \cup WaitChain(WaitsOn(u), n - 1)

(***************************************************************************)
(* C32.  The guards of the controller, of a channel and of a configuration *)
(* are held only inside get_channel_name and                               *)
(* extract_rtmp_stream_details: a task that is idle or suspended (waiting  *)
(* for a registry lock, for metadata or a spawn, for the lock of a handle, *)
(* for a kill, a timeout or a poll) holds none of them; a task that holds  *)
(* one while it holds a registry lock is inside the extraction of a start; *)
(* and no task waits, through any chain of lock holders, for itself.       *)
(***************************************************************************)
C32_ControllerLockBrief ==
    /\ \A t \in Tasks :
         /\ pc[t] \in SuspendedAt \cup {"idle"} => ~CtlHeldBy(t)
         /\ (CtlHeldBy(t) /\ \E k \in Kinds : regLock[k] = t)
               => pc[t] \in {"rtmpConfig", "rtmpHeld"} /\ req[t].action = "start"
         /\ t \notin WaitChain(WaitsOn(t), NumTasks)
    /\ pc \in [Tasks -> SuspendedAt \cup {"idle", "name", "nameChannel",
                                          "nameHeld", "rtmp", "rtmpConfig",
                                          "rtmpHeld"}]

\* A start holds its registry lock and, inside the extraction, the guards
\* of the controller and of the configuration, while another handler waits
\* for that registry lock.
C32_Witness ==
    \E t \in Tasks : \E u \in Tasks \ {t} :
       /\ pc[t] = "rtmpHeld"
       /\ regLock[req[t].kind] = t
       /\ ctl.controllers = t
       /\ ctl.config[req[t].id] = t
       /\ pc[u] = "lock"
       /\ WaitsOn(u) = t

=============================================================================
